---------------------------- MODULE Spec2Model ----------------------------
(***************************************************************************)
(* Model of the document-processing service (services/ai.ts of the         *)
(* backend): the token oracle, the section splitter and scorer, the        *)
(* budgeted section selector, the token-bounded chunker and the two-pass   *)
(* question-answering controller.                                          *)
(*                                                                         *)
(* A text is a sequence of one-character strings.  Character offsets are   *)
(* 0-based as in the source; Slice(s, a, b) is s.slice(a, b).              *)
(***************************************************************************)
EXTENDS Integers, Sequences, FiniteSets, TLC

VARIABLES
  text,               \* the text argument of the operation under check
  \* ---- chunkByTokens ----
  maxTokensPerChunk,  \* argument
  overlapTokens,      \* argument
  startChar,          \* local of the while loop
  lastEndChar,        \* local of the while loop
  chunks,             \* the array being built (sequence of texts)
  spans,              \* history: <<startChar, endChar>> of every pushed chunk
  cpc,                \* "idle" | "loop" | "done"
  \* ---- selectRelevantText ----
  maxTokens,          \* argument (the token budget)
  selection,          \* what the call computed: see selectRelevantText
  spc,                \* "idle" | "done"
  \* ---- answerQuestion ----
  question,           \* argument
  mockAI,             \* config.MOCK_AI
  qaModel,            \* config.AI_QA_MODEL
  maxQaTokens,        \* config.MAX_QA_TOKENS
  requests,           \* history: the completion requests issued, in order
  responses,          \* history: the completion responses received, in order
  failures,           \* history: the number of completion calls that failed
  result,             \* the value the call resolved with, or NoResult
  error,              \* the error the call rejected with, or NoError
  apc,                \* "idle" | "await1" | "await2" | "returned" | "thrown"
  \* ---- extractRelevantSnippets ----
  snippetQuestion,    \* argument question
  snippetTarget,      \* argument targetTokens
  snippetTopK,        \* options.topK (an omitted option reads as its default)
  snippetOverlap,     \* options.overlapRatio, in tenths
  snippets,           \* what the call computed: see SnippetCall
  xpc,                \* "idle" | "done"
  \* ---- generateSummaryAndKeyPoints, compareDocuments, handleChatbotMessage
  op,                 \* the exported function that was called
  inputs,             \* its required text arguments, in parameter order
  pipeMock,           \* config.MOCK_AI
  work,               \* history: the calls made so far (oracle, stages, requests)
  nChunks,            \* chunks.length once chunkByTokens has returned
  pending,            \* chunk requests in flight (chunk numbers, from 1)
  fulfilled,          \* chunk requests that returned a summary
  rejected,           \* chunk requests that threw
  settled,            \* history: the chunk requests in the order they ended
  chunkSummaries,     \* per part of the synthesis prompt, the chunk whose
                      \* summary it is
  failedStage,        \* history: the stage whose failure rejected the call
  raised,             \* the error the call rejected with, or NoError
  ppc,                \* "idle" | "selected" | "chunks" | "awaiting" |
                      \* "returned" | "thrown"
  \* ---- repositories/documents.ts ----
  documents,          \* the rows of table documents; row i has id i
  lastCall,           \* history: the last repository call and its outcome
  softDeleted,        \* history: the ids softDeleteDocument succeeded for
  \* ---- POST /upload (routes/documents.ts) ----
  uploadMock,         \* config.MOCK_AI
  jobs,               \* per document: "none" | "queued" | "analysing" | "done"
  \* ---- GET /:id/status/stream (routes/documents.ts) ----
  streamId,           \* the document the stream was opened for, 0: no stream
  conn,               \* the response: "none" | "refused" | "open" | "ended"
  interval,           \* the setInterval timer is armed
  timeout,            \* the setTimeout timer is armed
  closed,             \* the request's close event was delivered
  events,             \* history: the res.write calls of sendStatus
  \* ---- POST /:id/ask and POST /chat (routes/documents.ts) ----
  conversations,      \* the rows of table conversations, in insertion order
  messages,           \* the rows of conversation_messages, in insertion order
  chats,              \* /chat requests awaiting handleChatbotMessage
  asks,               \* /ask requests awaiting answerQuestion
  lastAsk,            \* the body of the last /ask response
  replies,            \* history: the assistant messages stored as replies
  \* ---- splitIntoSections ----
  split,              \* what the call computed: see SplitCall
  tpc,                \* "idle" | "done"
  \* ---- countTokensForText ----
  countMock,          \* config.MOCK_AI
  countRequests,      \* history: the messages.countTokens calls issued
  countFailures,      \* history: the messages.countTokens calls that threw
  counted,            \* the number the call resolved with
  kpc                 \* "idle" | "awaiting" | "returned" | "thrown"

chunkVars == <<maxTokensPerChunk, overlapTokens, startChar, lastEndChar,
               chunks, spans, cpc>>

selectVars == <<maxTokens, selection, spc>>

answerVars == <<question, mockAI, qaModel, maxQaTokens, requests, responses,
                failures, result, error, apc>>

snippetVars == <<snippetQuestion, snippetTarget, snippetTopK, snippetOverlap,
                 snippets, xpc>>

pipeVars == <<op, inputs, pipeMock, work, nChunks, pending, fulfilled,
              rejected, settled, chunkSummaries, failedStage, raised, ppc>>

repoVars == <<documents, lastCall, softDeleted>>

\* the groups added after the first three operations
uploadVars == <<uploadMock, jobs>>

streamVars == <<streamId, conn, interval, timeout, closed, events>>

convVars == <<conversations, messages, chats, asks, lastAsk, replies>>

splitVars == <<split, tpc>>
countVars == <<countMock, countRequests, countFailures, counted, kpc>>

laterVars == <<snippetVars, pipeVars, repoVars, uploadVars, streamVars,
               convVars, splitVars, countVars>>

\* the first three groups, for the frame conditions of the later operations
coreVars == <<chunkVars, selectVars, answerVars>>

\* what each later operation leaves alone
serverVars == <<repoVars, uploadVars, streamVars, convVars>>
outsideServer ==
  <<text, coreVars, snippetVars, pipeVars, splitVars, countVars>>

outsideSnippet ==
  <<coreVars, pipeVars, serverVars, splitVars, countVars>>
outsidePipe ==
  <<text, coreVars, snippetVars, serverVars, splitVars, countVars>>
outsideRepo == <<outsideServer, uploadVars, streamVars, convVars>>
outsideUpload == <<outsideServer, streamVars, convVars>>
outsideStream == <<outsideServer, repoVars, uploadVars, convVars>>
outsideConv == <<outsideServer, repoVars, uploadVars, streamVars>>
outsideCount ==
  <<coreVars, snippetVars, pipeVars, serverVars, splitVars>>
outsideSplit ==
  <<coreVars, snippetVars, pipeVars, serverVars, countVars>>

vars == <<text, coreVars, laterVars>>

\* The values the later groups hold while another operation is under check
NoSnippets == [keywords |-> <<>>, windows |-> <<>>, out |-> <<>>]

NoSplit == [lines |-> <<>>, heads |-> {}, sections |-> <<>>]

SplitUnused ==
  /\ split = NoSplit
  /\ tpc = "idle"

CountUnused ==
  /\ countMock = FALSE
  /\ countRequests = 0
  /\ countFailures = 0
  /\ counted = 0
  /\ kpc = "idle"

SnippetUnused ==
  /\ snippetQuestion = <<>>
  /\ snippetTarget = 0
  /\ snippetTopK = 0
  /\ snippetOverlap = 0
  /\ snippets = NoSnippets
  /\ xpc = "idle"

\* no exported function of this group was called; the error slot is empty
\* (the value of NoError)
PipeUnused ==
  /\ op = "none"          \* a function outside this group
  /\ inputs = <<>>
  /\ pipeMock = FALSE
  /\ work = <<>>
  /\ nChunks = 0
  /\ pending = {}
  /\ fulfilled = {}
  /\ rejected = {}
  /\ settled = <<>>
  /\ chunkSummaries = <<>>
  /\ failedStage = "none"
  /\ raised = [name |-> "", message |-> "", statusCode |-> 0]
  /\ ppc = "idle"

\* no call made yet (the error slot holds the value of NoError)
NoCall == [n |-> 0, fn |-> "", id |-> 0,
           error |-> [name |-> "", message |-> "", statusCode |-> 0]]

RepoUnused ==
  /\ documents = <<>>
  /\ lastCall = NoCall
  /\ softDeleted = {}

UploadUnused ==
  /\ uploadMock = FALSE
  /\ jobs = <<>>

StreamUnused ==
  /\ streamId = 0
  /\ conn = "none"
  /\ interval = FALSE
  /\ timeout = FALSE
  /\ closed = FALSE
  /\ events = <<>>

NoAsk == [cached |-> FALSE, answer |-> <<>>, document |-> 0,
          question |-> <<>>]

ConvUnused ==
  /\ conversations = <<>>
  /\ messages = <<>>
  /\ chats = {}
  /\ asks = {}
  /\ lastAsk = NoAsk
  /\ replies = {}

ServerUnused == RepoUnused /\ UploadUnused /\ StreamUnused /\ ConvUnused

LaterUnused ==
  SnippetUnused /\ PipeUnused /\ ServerUnused /\ SplitUnused /\ CountUnused

----------------------------------------------------------------------------
(* Characters and strings                                                  *)

Min(a, b) == IF a <= b THEN a ELSE b
Max(a, b) == IF a >= b THEN a ELSE b

\* n copies of the character c
Rep(c, n) == [i \in 1..n |-> c]

\* White space as String.prototype.trim and the regex class \s see it
\* (the characters of it that the inputs use).
Whitespace == {" ", "\n", "\r", "\t"}

\* String.prototype.slice(a, b): negative offsets count from the end,
\* offsets are clamped to [0, length].
SliceIndex(n, k) == IF k < 0 THEN Max(0, n + k) ELSE Min(k, n)
Slice(s, a, b) == SubSeq(s, SliceIndex(Len(s), a) + 1, SliceIndex(Len(s), b))

\* variant of IsBlank: only the empty string counts as blank
IsEmptyOnly(s) == Len(s) = 0

\* s.trim().length = 0
IsBlank(s) == \A i \in 1..Len(s) : s[i] \in Whitespace

\* pat occurs in s at 0-based offset i
MatchAt(s, pat, i) ==
  /\ i >= 0
  /\ i + Len(pat) <= Len(s)
  /\ \A j \in 1..Len(pat) : s[i + j] = pat[j]

\* String.prototype.lastIndexOf(pat): the largest 0-based offset, or -1
LastIndexOf(s, pat) ==
  LET hits == {i \in 0..Len(s) : MatchAt(s, pat, i)}
  IN  IF hits = {} THEN -1 ELSE CHOOSE i \in hits : \A j \in hits : j <= i

\* String.prototype.includes(pat)
Includes(s, pat) == \E i \in 0..Len(s) : MatchAt(s, pat, i)

UpperCase == <<"A", "B", "C", "D", "E", "F", "G", "H", "I", "J", "K", "L", "M",
               "N", "O", "P", "Q", "R", "S", "T", "U", "V", "W", "X", "Y", "Z">>
LowerCase == <<"a", "b", "c", "d", "e", "f", "g", "h", "i", "j", "k", "l", "m",
               "n", "o", "p", "q", "r", "s", "t", "u", "v", "w", "x", "y", "z">>
Digits == {"0", "1", "2", "3", "4", "5", "6", "7", "8", "9"}

IsUpper(c) == \E i \in 1..26 : UpperCase[i] = c
IsLetter(c) == \E i \in 1..26 : UpperCase[i] = c \/ LowerCase[i] = c

\* String.prototype.toLowerCase
ToLowerChar(c) ==
  IF IsUpper(c) THEN LowerCase[CHOOSE i \in 1..26 : UpperCase[i] = c] ELSE c
ToLower(s) == [i \in 1..Len(s) |-> ToLowerChar(s[i])]

\* String.prototype.trim
Trim(s) ==
  LET keep == {i \in 1..Len(s) : s[i] \notin Whitespace}
  IN  IF keep = {} THEN <<>>
      ELSE SubSeq(s, CHOOSE i \in keep : \A j \in keep : i <= j,
                     CHOOSE i \in keep : \A j \in keep : j <= i)

\* the number of leading characters of s that lie in the set cls
RECURSIVE LeadRun(_, _, _)
LeadRun(s, cls, i) ==
  IF i <= Len(s) /\ s[i] \in cls THEN 1 + LeadRun(s, cls, i + 1) ELSE 0

\* s starts with word, letter case ignored
StartsWithCI(s, word) == MatchAt(ToLower(s), ToLower(word), 0)

\* Array.prototype.join
RECURSIVE Join(_, _)
Join(parts, sep) ==
  IF Len(parts) = 0 THEN <<>>
  ELSE IF Len(parts) = 1 THEN parts[1]
  ELSE parts[1] \o sep \o Join(Tail(parts), sep)

\* Array.prototype.join("")
RECURSIVE Concat(_)
Concat(parts) ==
  IF Len(parts) = 0 THEN <<>> ELSE parts[1] \o Concat(Tail(parts))

----------------------------------------------------------------------------
(* Token oracle (countTokensForText in simulation mode, and its fallback   *)
(* when the remote count fails): Math.ceil(text.length / 4)                *)

CeilDiv4(n) == (n + 3) \div 4

countTokensForText(s) == CeilDiv4(Len(s))

----------------------------------------------------------------------------
(* splitIntoSections                                                       *)

TitleLimit == 120
MaxHashes == 6

\* text.split(/\r?\n/): cur is the line being read
RECURSIVE SplitLines(_, _, _)
SplitLines(t, i, cur) ==
  IF i > Len(t) THEN <<cur>>
  ELSE IF t[i] = "\n"
    THEN <<IF Len(cur) > 0 /\ cur[Len(cur)] = "\r"
             THEN SubSeq(cur, 1, Len(cur) - 1) ELSE cur>>
         \o SplitLines(t, i + 1, <<>>)
    ELSE SplitLines(t, i + 1, Append(cur, t[i]))

\* the length of the match of /^#{1,6}\s+/ at the head of s, 0 when none
HashPrefixLen(s) ==
  LET h  == LeadRun(s, {"#"}, 1)
      ws == LeadRun(s, Whitespace, h + 1)
  IN  IF h >= 1 /\ h <= MaxHashes /\ ws >= 1 THEN h + ws ELSE 0

HeadingWords ==
  << <<"P", "o", "l", "i", "c", "y">>,
     <<"P", "r", "o", "c", "e", "d", "u", "r", "e">>,
     <<"S", "c", "o", "p", "e">>,
     <<"P", "u", "r", "p", "o", "s", "e">>,
     <<"P", "P", "E">>,
     <<"S", "a", "f", "e", "t", "y">>,
     <<"H", "a", "z", "a", "r", "d">>,
     <<"R", "i", "s", "k">>,
     <<"R", "e", "s", "p", "o", "n", "s", "i", "b", "i", "l", "i", "t", "i", "e">> >>

SectionWord == <<"S", "e", "c", "t", "i", "o", "n">>

\* headerRegex.test(s), the regex carrying the flag i:
\*   ^(\d+\.|[A-Z][A-Z\s]{2,}|#{1,6}\s+|Section\s+\d+|Policy|...|Responsibilities?)
headerRegexTest(s) ==
  \/ LET d == LeadRun(s, Digits, 1)
     IN  d >= 1 /\ Len(s) > d /\ s[d + 1] = "."
  \/ /\ Len(s) >= 3
     /\ IsLetter(s[1])
     /\ \A i \in 2..3 : IsLetter(s[i]) \/ s[i] \in Whitespace
  \/ HashPrefixLen(s) > 0
  \/ /\ StartsWithCI(s, SectionWord)
     /\ LET ws == LeadRun(s, Whitespace, Len(SectionWord) + 1)
        IN  /\ ws >= 1
            /\ LeadRun(s, Digits, Len(SectionWord) + ws + 1) >= 1
  \/ \E k \in 1..Len(HeadingWords) : StartsWithCI(s, HeadingWords[k])

\* line.trim().replace(/^#{1,6}\s+/, "").slice(0, 120)
TitleOf(line) ==
  LET t == Trim(line)
  IN  Slice(SubSeq(t, HashPrefixLen(t) + 1, Len(t)), 0, TitleLimit)

\* lines 72-84: the scan; secs are the sections pushed so far
RECURSIVE ScanLines(_, _, _, _, _)
ScanLines(lines, i, currentTitle, currentBody, secs) ==
  IF i > Len(lines)
    THEN IF Len(currentBody) > 0
           THEN Append(secs, [title |-> currentTitle,
                              body |-> Join(currentBody, <<"\n">>)])
           ELSE secs
    ELSE IF headerRegexTest(Trim(lines[i]))
      THEN ScanLines(lines, i + 1, TitleOf(lines[i]), <<>>,
                     IF Len(currentBody) > 0
                       THEN Append(secs, [title |-> currentTitle,
                                          body |-> Join(currentBody, <<"\n">>)])
                       ELSE secs)
      ELSE ScanLines(lines, i + 1, currentTitle,
                     Append(currentBody, lines[i]), secs)

Introduction ==
  <<"I", "n", "t", "r", "o", "d", "u", "c", "t", "i", "o", "n">>

\* variant of FilterNonBlank: nothing is filtered
KeepBlankBodies(secs) == secs

\* Array.prototype.filter, order kept
RECURSIVE FilterNonBlank(_)
FilterNonBlank(secs) ==
  IF Len(secs) = 0 THEN <<>>
  ELSE IF IsBlank(secs[1].body) THEN FilterNonBlank(Tail(secs))
  ELSE <<secs[1]>> \o FilterNonBlank(Tail(secs))

splitIntoSections(t) ==
  FilterNonBlank(ScanLines(SplitLines(t, 1, <<>>), 1, Introduction, <<>>, <<>>))

----------------------------------------------------------------------------
(* scoreSectionForCompliance                                               *)

KeywordWeight == 2

keywords ==
  << <<"p", "o", "l", "i", "c", "y">>,
     <<"p", "r", "o", "c", "e", "d", "u", "r", "e">>,
     <<"p", "p", "e">>,
     <<"p", "e", "r", "s", "o", "n", "a", "l", " ", "p", "r", "o", "t", "e", "c",
       "t", "i", "v", "e", " ", "e", "q", "u", "i", "p", "m", "e", "n", "t">>,
     <<"s", "a", "f", "e", "t", "y">>,
     <<"h", "a", "z", "a", "r", "d">>,
     <<"r", "i", "s", "k">>,
     <<"c", "o", "n", "t", "r", "o", "l">>,
     <<"r", "e", "s", "p", "o", "n", "s", "i", "b", "i", "l", "i", "t", "i", "e", "s">>,
     <<"t", "r", "a", "i", "n", "i", "n", "g">>,
     <<"i", "n", "s", "p", "e", "c", "t", "i", "o", "n">>,
     <<"m", "a", "i", "n", "t", "e", "n", "a", "n", "c", "e">>,
     <<"i", "s", "o", "l", "a", "t", "i", "o", "n">>,
     <<"l", "o", "c", "k", "o", "u", "t">>,
     <<"p", "e", "r", "m", "i", "t">> >>

scoreSectionForCompliance(section) ==
  LET t == ToLower(section.title \o <<"\n">> \o section.body)
  IN  KeywordWeight * Cardinality({k \in 1..Len(keywords) : Includes(t, keywords[k])})

----------------------------------------------------------------------------
(* selectRelevantText                                                      *)

LengthScale == 1000
FallbackHighFactor == 8
FallbackCharsPerToken == 4

\* `=== ${title} ===\n${body}`: the string whose tokens are counted (line 125)
SectionText(sec) ==
  <<"=", "=", "=", " ">> \o sec.title \o <<" ", "=", "=", "=", "\n">> \o sec.body

\* `\n\n=== ${title} ===\n${body}`: the string that is picked (line 146)
PickedText(sec) == <<"\n", "\n">> \o SectionText(sec)

\* lines 130-134
Scored(secs) ==
  [i \in 1..Len(secs) |->
     [s |-> secs[i],
      kw |-> scoreSectionForCompliance(secs[i]),
      tokens |-> countTokensForText(SectionText(secs[i]))]]

\* kw + Math.max(0, 1000 - tokens) / 1000, in thousandths
CompositeScore(r) == r.kw * LengthScale + Max(0, LengthScale - r.tokens)

\* variant of InsertRanked: the sections stay in document order
InsertUnranked(sorted, r) == Append(sorted, r)

\* lines 136-140: the stable sort by descending composite score
RECURSIVE InsertRanked(_, _)
InsertRanked(sorted, r) ==
  IF Len(sorted) = 0 THEN <<r>>
  ELSE IF CompositeScore(sorted[1]) >= CompositeScore(r)
    THEN <<sorted[1]>> \o InsertRanked(Tail(sorted), r)
    ELSE <<r>> \o sorted

RECURSIVE Ranked(_, _, _)
Ranked(scored, i, sorted) ==
  IF i > Len(scored) THEN sorted
  ELSE Ranked(scored, i + 1, InsertRanked(sorted, scored[i]))

\* variant of PickLoop: the scan ends at the first section that does not fit
RECURSIVE PickLoopStopsAtMisfit(_, _, _, _)
PickLoopStopsAtMisfit(ranked, i, budget, acc) ==
  IF i > Len(ranked) THEN acc
  ELSE IF acc.used + ranked[i].tokens > budget
    THEN [acc EXCEPT !.skipped = acc.skipped \cup {i}]
    ELSE PickLoopStopsAtMisfit(ranked, i + 1, budget,
           [picked   |-> Append(acc.picked, PickedText(ranked[i].s)),
            used     |-> acc.used + ranked[i].tokens,
            accepted |-> acc.accepted \cup {i},
            skipped  |-> acc.skipped])

\* lines 142-151: the greedy scan.  acc holds picked and used, and the ranks
\* of the sections that were accepted and of those skipped by the continue.
RECURSIVE PickLoop(_, _, _, _)
PickLoop(ranked, i, budget, acc) ==
  IF i > Len(ranked) THEN acc
  ELSE IF acc.used + ranked[i].tokens > budget
    THEN PickLoop(ranked, i + 1, budget,
                  [acc EXCEPT !.skipped = acc.skipped \cup {i}])
    ELSE LET nxt == [picked   |-> Append(acc.picked, PickedText(ranked[i].s)),
                     used     |-> acc.used + ranked[i].tokens,
                     accepted |-> acc.accepted \cup {i},
                     skipped  |-> acc.skipped]
         IN  IF nxt.used >= budget THEN nxt
             ELSE PickLoop(ranked, i + 1, budget, nxt)

\* lines 164-175: binary search for the longest prefix within the budget
RECURSIVE PrefixSearch(_, _, _, _, _)
PrefixSearch(t, budget, low, high, best) ==
  IF low > high THEN best
  ELSE LET mid == (low + high) \div 2
           tokens == countTokensForText(Slice(t, 0, mid))
       IN  IF tokens <= budget
             THEN PrefixSearch(t, budget, mid + 1, high, mid)
             ELSE PrefixSearch(t, budget, low, mid - 1, best)

\* variant of PrefixSearch: a prefix must count fewer tokens than the budget
RECURSIVE StrictPrefixSearch(_, _, _, _, _)
StrictPrefixSearch(t, budget, low, high, best) ==
  IF low > high THEN best
  ELSE LET mid == (low + high) \div 2
           tokens == countTokensForText(Slice(t, 0, mid))
       IN  IF tokens < budget
             THEN StrictPrefixSearch(t, budget, mid + 1, high, mid)
             ELSE StrictPrefixSearch(t, budget, low, mid - 1, best)

\* variant of FallbackPrefix: strict search, and no default when best is 0
FallbackPrefixStrict(t, budget) ==
  Slice(t, 0, StrictPrefixSearch(t, budget, 0,
                                 Min(Len(t), budget * FallbackHighFactor), 0))

\* variant of FallbackPrefix: the upper bound of the search is returned
FallbackPrefixWhole(t, budget) ==
  Slice(t, 0, Min(Len(t), budget * FallbackHighFactor))

\* lines 160-177: text.slice(0, best || Math.min(text.length, maxTokens * 4))
FallbackPrefix(t, budget) ==
  LET best == PrefixSearch(t, budget, 0,
                           Min(Len(t), budget * FallbackHighFactor), 0)
  IN  Slice(t, 0, IF best # 0 THEN best
                  ELSE Min(Len(t), budget * FallbackCharsPerToken))

\* The call as a whole.  out is the string returned; ranked, accepted and
\* used are the locals the claims speak of; fallback tells which return ran.
selectRelevantText(t, budget) ==
  LET ranked == Ranked(Scored(splitIntoSections(t)), 1, <<>>)
      acc    == PickLoop(ranked, 1, budget,
                         [picked |-> <<>>, used |-> 0, accepted |-> {},
                          skipped |-> {}])
  IN  [ranked   |-> ranked,
       accepted |-> acc.accepted,
       skipped  |-> acc.skipped,
       used     |-> acc.used,
       fallback |-> Len(acc.picked) = 0,
       out      |-> IF Len(acc.picked) = 0 THEN FallbackPrefix(t, budget)
                    ELSE Concat(acc.picked)]

NoSelection ==
  [ranked |-> <<>>, accepted |-> {}, skipped |-> {}, used |-> 0,
   fallback |-> FALSE, out |-> <<>>]

SelectUnused ==
  /\ maxTokens = 0
  /\ selection = NoSelection
  /\ spc = "idle"

Select ==
  /\ spc = "idle"
  /\ selection' = selectRelevantText(text, maxTokens)
  /\ spc' = "done"
  /\ UNCHANGED <<text, maxTokens>>
  /\ UNCHANGED <<chunkVars, answerVars, laterVars>>

----------------------------------------------------------------------------
(* estimateCostUsd                                                         *)

HaikuModel == "claude-3-haiku-20240307"
SonnetModel == "claude-3-5-sonnet-latest"
Sonnet1022Model == "claude-3-5-sonnet-20241022"

\* MODEL_PRICES_PER_MTOK, in hundredths of a dollar per million tokens
MODEL_PRICES_PER_MTOK ==
  (HaikuModel :> [input |-> 25, output |-> 125])
  @@ (SonnetModel :> [input |-> 300, output |-> 1500])
  @@ (Sonnet1022Model :> [input |-> 300, output |-> 1500])

\* stands for the null that estimateCostUsd returns for an unpriced model
NullCost == -1

CostDivisor == 10000
CostHalf == 5000

\* The cost in ten-thousandths of a dollar, or null for an unpriced model:
\*   Math.round(((in / 1e6) * price.input + (out / 1e6) * price.output) * 10000) / 10000
\* With prices in hundredths the rounded quantity is
\* (in * input + out * output) / 10000.
estimateCostUsd(model, inputTokens, outputTokens) ==
  IF model \notin DOMAIN MODEL_PRICES_PER_MTOK THEN NullCost
  ELSE LET price == MODEL_PRICES_PER_MTOK[model]
       IN  (inputTokens * price.input + outputTokens * price.output + CostHalf)
             \div CostDivisor

----------------------------------------------------------------------------
(* extractRelevantSnippets                                                 *)

MinKeywordLen == 2
OccurrenceWeight == 2
OccurrenceCap == 10
MinOverlapTenths == 1
MaxOverlapTenths == 9

AlnumLower == {LowerCase[i] : i \in 1..26} \cup Digits

\* lowerQ.split(/[^a-z0-9]+/).filter((w) => w.length > 2): the maximal runs
\* of [a-z0-9] longer than two characters, in order
RECURSIVE QuestionWords(_, _, _)
QuestionWords(q, i, cur) ==
  IF i > Len(q)
    THEN IF Len(cur) > MinKeywordLen THEN <<cur>> ELSE <<>>
    ELSE IF q[i] \in AlnumLower
      THEN QuestionWords(q, i + 1, Append(cur, q[i]))
      ELSE (IF Len(cur) > MinKeywordLen THEN <<cur>> ELSE <<>>)
           \o QuestionWords(q, i + 1, <<>>)

\* Array.from(new Set(words)): first occurrences, in order
RECURSIVE Dedupe(_, _)
Dedupe(ws, seen) ==
  IF Len(ws) = 0 THEN <<>>
  ELSE IF ws[1] \in seen THEN Dedupe(Tail(ws), seen)
  ELSE <<ws[1]>> \o Dedupe(Tail(ws), seen \cup {ws[1]})

QuestionKeywords(q) == Dedupe(QuestionWords(ToLower(q), 1, <<>>), {})

\* l.split(k).length - 1: the matches of k in l found left to right, each
\* search resuming after the previous match
RECURSIVE Occurrences(_, _, _)
Occurrences(l, k, i) ==
  IF i + Len(k) > Len(l) THEN 0
  ELSE IF MatchAt(l, k, i) THEN 1 + Occurrences(l, k, i + Len(k))
  ELSE Occurrences(l, k, i + 1)

RECURSIVE WindowScoreFrom(_, _, _)
WindowScoreFrom(l, kws, j) ==
  IF j > Len(kws) THEN 0
  ELSE LET occurrences == Occurrences(l, kws[j], 0)
       IN  (IF occurrences > 0
              THEN Min(occurrences * OccurrenceWeight, OccurrenceCap) ELSE 0)
           + WindowScoreFrom(l, kws, j + 1)

\* lines 486-492
WindowScore(slice, kws) == WindowScoreFrom(ToLower(slice), kws, 1)

\* lines 483-496: the window loop
RECURSIVE Candidates(_, _, _, _, _)
Candidates(t, kws, start, windowChars, stride) ==
  IF start >= Len(t) THEN <<>>
  ELSE LET end == Min(Len(t), start + windowChars)
           slice == Slice(t, start, end)
           c == [s |-> slice, score |-> WindowScore(slice, kws),
                 from |-> start, to |-> end]
       IN  IF end >= Len(t) THEN <<c>>
           ELSE <<c>> \o Candidates(t, kws, start + stride, windowChars, stride)

\* candidates.sort((a, b) => b.score - a.score): stable, descending
RECURSIVE InsertByScore(_, _)
InsertByScore(sorted, c) ==
  IF Len(sorted) = 0 THEN <<c>>
  ELSE IF sorted[1].score >= c.score
    THEN <<sorted[1]>> \o InsertByScore(Tail(sorted), c)
    ELSE <<c>> \o sorted

\* variant of SortByScore: the windows stay in window order
KeepWindowOrder(cs, i, sorted) == cs

RECURSIVE SortByScore(_, _, _)
SortByScore(cs, i, sorted) ==
  IF i > Len(cs) THEN sorted
  ELSE SortByScore(cs, i + 1, InsertByScore(sorted, cs[i]))

Divider == <<"\n", "\n", "-", "-", "-", "\n", "\n">>

\* variant of StrideOf: the step passes the end of the window
StrideBeyondWindow(windowChars, overlapTenths) == windowChars + 1

\* Math.max(1, Math.floor(windowChars * (1 - overlapRatio))), the ratio given
\* in tenths and clamped to [0.1, 0.9].  The doubles 1 - 0.8 and 1 - 0.9 lie
\* just below 0.2 and 0.1, so where the exact product is a whole number the
\* floor comes out one lower; for the other ratios the floor is the integer
\* quotient (for 0.3 as long as windowChars < 180).
InexactFromTenths == 8

StrideOf(windowChars, overlapTenths) ==
  LET r == Min(Max(overlapTenths, MinOverlapTenths), MaxOverlapTenths)
      exact == windowChars * (10 - r)
      q == exact \div 10
  IN  Max(1, IF r >= InexactFromTenths /\ exact % 10 = 0 THEN q - 1 ELSE q)

\* the windows the call builds, in window order
SnippetCandidates(t, q, targetTokens, overlapTenths) ==
  Candidates(t, QuestionKeywords(q), 0, targetTokens * 4,
             StrideOf(targetTokens * 4, overlapTenths))

\* the call without the early return on an empty keyword list
extractWithoutKeywordCheck(t, q, target, k, overlap) ==
  LET cands == Candidates(t, QuestionKeywords(q), 0, target * 4,
                          StrideOf(target * 4, overlap))
      sorted == SortByScore(cands, 1, <<>>)
      top == SubSeq(sorted, 1, Min(Len(sorted), Max(1, k)))
  IN  IF Len(top) = 0 THEN Slice(t, 0, Min(Len(t), target * 4))
      ELSE Join([i \in 1..Len(top) |-> top[i].s], Divider)

extractRelevantSnippets(t, q, targetTokens, topK, overlapTenths) ==
  LET kws == QuestionKeywords(q)
      windowChars == targetTokens * 4
  IN  IF Len(kws) = 0 THEN Slice(t, 0, Min(Len(t), targetTokens * 4))
      ELSE LET cands == SnippetCandidates(t, q, targetTokens, overlapTenths)
               sorted == SortByScore(cands, 1, <<>>)
               top == SubSeq(sorted, 1, Min(Len(sorted), Max(1, topK)))
           IN  IF Len(top) = 0 THEN Slice(t, 0, Min(Len(t), windowChars))
               ELSE Join([i \in 1..Len(top) |-> top[i].s], Divider)

----------------------------------------------------------------------------
(* answerQuestion                                                          *)

MockInstructionLen == 66
QuestionPrefixLen == 10
MockOutputTokens == 180
Pass1TopK == 3
Pass1OverlapTenths == 5
Pass2TargetTokens == 3500
Pass2TopK == 4
Pass2OverlapTenths == 6
ServerErrorStatus == 500

NoResult == [answer |-> <<>>, usage |-> [model |-> "", inputTokens |-> 0,
                                          outputTokens |-> 0],
             costUsd |-> NullCost, passes |-> 0]
NoError == [name |-> "", message |-> "", statusCode |-> 0]

\* new AIServiceError(message): `AI Service Error: ${message}`, status 500
AIServiceError(message) ==
  [name |-> "AIServiceError", message |-> "AI Service Error: " \o message,
   statusCode |-> ServerErrorStatus]

\* the alternatives of the low-confidence regex (line 880)
LowConfidencePatterns ==
  { <<"c", "a", "n", "'", "t", " ", "f", "i", "n", "d">>,
    <<"i", "n", "s", "u", "f", "f", "i", "c", "i", "e", "n", "t", " ",
      "c", "o", "n", "t", "e", "x", "t">>,
    <<"n", "o", "t", " ", "p", "r", "o", "v", "i", "d", "e", "d">>,
    <<"u", "n", "c", "l", "e", "a", "r">>,
    <<"u", "n", "s", "p", "e", "c", "i", "f", "i", "e", "d">> }

\* variant of lowConfidence: the regex without its flag i
lowConfidenceCaseSensitive(answer) ==
  \E pat \in LowConfidencePatterns : Includes(answer, pat)

\* /can't find|insufficient context|not provided|unclear|unspecified/i.test(answer)
lowConfidence(answer) ==
  \E pat \in LowConfidencePatterns : Includes(ToLower(answer), pat)

\* variant of TotalUsage: only the second pass is reported
SecondPassOnly(usage1, usage2) ==
  [model |-> usage2.model,
   inputTokens |-> usage2.inputTokens,
   outputTokens |-> usage2.outputTokens]

\* lines 945-946, 956-960: the usage returned after the second pass
TotalUsage(usage1, usage2) ==
  [model |-> usage2.model,
   inputTokens |-> usage1.inputTokens + usage2.inputTokens,
   outputTokens |-> usage1.outputTokens + usage2.outputTokens]

\* resp.content?.[0] text, trimmed, and resp.usage (lines 865-873, 935-943)
AnswerOf(resp) == Trim(resp.text)
UsageOf(resp) ==
  [model |-> qaModel, inputTokens |-> resp.inputTokens,
   outputTokens |-> resp.outputTokens]

\* lines 790-792
AnswerRejectText ==
  /\ apc = "idle"
  /\ IsBlank(text)
  /\ error' = AIServiceError("Empty text provided for question answering")
  /\ apc' = "thrown"
  /\ UNCHANGED <<text, question, mockAI, qaModel, maxQaTokens, requests,
                 responses, failures, result>>
  /\ UNCHANGED <<chunkVars, selectVars, laterVars>>

\* lines 794-796
AnswerRejectQuestion ==
  /\ apc = "idle"
  /\ ~IsBlank(text)
  /\ IsBlank(question)
  /\ error' = AIServiceError("Empty question provided")
  /\ apc' = "thrown"
  /\ UNCHANGED <<text, question, mockAI, qaModel, maxQaTokens, requests,
                 responses, failures, result>>
  /\ UNCHANGED <<chunkVars, selectVars, laterVars>>

\* lines 805-840: simulation mode, no completion request
AnswerMock ==
  /\ apc = "idle"
  /\ ~IsBlank(text) /\ ~IsBlank(question)
  /\ mockAI
  /\ LET snippet == extractRelevantSnippets(text, question, maxQaTokens,
                                            Pass1TopK, Pass1OverlapTenths)
         inputTokens == CeilDiv4(MockInstructionLen)
                        + countTokensForText(snippet)
                        + CeilDiv4(QuestionPrefixLen + Len(question))
     IN  result' = [answer |-> <<"M", "O", "C", "K">>,
                    usage |-> [model |-> qaModel, inputTokens |-> inputTokens,
                               outputTokens |-> MockOutputTokens],
                    costUsd |-> estimateCostUsd(qaModel, inputTokens,
                                                MockOutputTokens),
                    passes |-> 0]
  /\ apc' = "returned"
  /\ UNCHANGED <<text, question, mockAI, qaModel, maxQaTokens, requests,
                 responses, failures, error>>
  /\ UNCHANGED <<chunkVars, selectVars, laterVars>>

\* lines 805-863: the first completion request is issued
AnswerPass1 ==
  /\ apc = "idle"
  /\ ~IsBlank(text) /\ ~IsBlank(question)
  /\ ~mockAI
  /\ requests' = Append(requests,
       [pass |-> 1, model |-> qaModel,
        excerpt |-> extractRelevantSnippets(text, question, maxQaTokens,
                                            Pass1TopK, Pass1OverlapTenths),
        question |-> question])
  /\ apc' = "await1"
  /\ UNCHANGED <<text, question, mockAI, qaModel, maxQaTokens, responses,
                 failures, result, error>>
  /\ UNCHANGED <<chunkVars, selectVars, laterVars>>

\* lines 865-900: the first response carries no low-confidence marker
Pass1Confident(resp) ==
  /\ apc = "await1"
  /\ ~lowConfidence(AnswerOf(resp))
  /\ responses' = Append(responses, resp)
  /\ result' = [answer |-> AnswerOf(resp),
                usage |-> UsageOf(resp),
                costUsd |-> estimateCostUsd(qaModel, resp.inputTokens,
                                            resp.outputTokens),
                passes |-> 1]
  /\ apc' = "returned"
  /\ UNCHANGED <<text, question, mockAI, qaModel, maxQaTokens, requests,
                 failures, error>>
  /\ UNCHANGED <<chunkVars, selectVars, laterVars>>

\* lines 865-933: the first response carries a marker; the second request
\* is issued with the larger excerpt
Pass1Escalate(resp) ==
  /\ apc = "await1"
  /\ lowConfidence(AnswerOf(resp))
  /\ responses' = Append(responses, resp)
  /\ requests' = Append(requests,
       [pass |-> 2, model |-> qaModel,
        excerpt |-> extractRelevantSnippets(text, question, Pass2TargetTokens,
                                            Pass2TopK, Pass2OverlapTenths),
        question |-> question])
  /\ apc' = "await2"
  /\ UNCHANGED <<text, question, mockAI, qaModel, maxQaTokens, failures,
                 result, error>>
  /\ UNCHANGED <<chunkVars, selectVars, laterVars>>

\* variant of Pass2Return: a low-confidence second answer escalates again
Pass2ReturnReescalating(resp) ==
  /\ apc = "await2"
  /\ responses' = Append(responses, resp)
  /\ IF lowConfidence(AnswerOf(resp))
       THEN /\ requests' = Append(requests,
                 [pass |-> Len(requests) + 1, model |-> qaModel,
                  excerpt |-> text, question |-> question])
            /\ UNCHANGED <<result, apc>>
       ELSE /\ result' = [answer |-> AnswerOf(resp),
                          usage |-> UsageOf(resp),
                          costUsd |-> NullCost, passes |-> 2]
            /\ apc' = "returned"
            /\ UNCHANGED requests
  /\ UNCHANGED <<text, question, mockAI, qaModel, maxQaTokens, failures,
                 error>>
  /\ UNCHANGED <<chunkVars, selectVars, laterVars>>

\* lines 935-962: the second response is the final answer
Pass2Return(resp) ==
  /\ apc = "await2"
  /\ responses' = Append(responses, resp)
  /\ LET total == TotalUsage(UsageOf(responses[1]), UsageOf(resp))
     IN  result' = [answer |-> AnswerOf(resp),
                    usage |-> total,
                    costUsd |-> estimateCostUsd(total.model, total.inputTokens,
                                                total.outputTokens),
                    passes |-> 2]
  /\ apc' = "returned"
  /\ UNCHANGED <<text, question, mockAI, qaModel, maxQaTokens, requests,
                 failures, error>>
  /\ UNCHANGED <<chunkVars, selectVars, laterVars>>

\* variant of CompletionFails: a failed second pass returns the first answer
CompletionFailsKeepingFirst ==
  /\ apc \in {"await1", "await2"}
  /\ failures' = failures + 1
  /\ IF apc = "await2"
       THEN /\ result' = [answer |-> AnswerOf(responses[1]),
                          usage |-> UsageOf(responses[1]),
                          costUsd |-> NullCost, passes |-> 1]
            /\ apc' = "returned"
            /\ UNCHANGED error
       ELSE /\ error' = AIServiceError("Failed to answer question")
            /\ apc' = "thrown"
            /\ UNCHANGED result
  /\ UNCHANGED <<text, question, mockAI, qaModel, maxQaTokens, requests,
                 responses>>
  /\ UNCHANGED <<chunkVars, selectVars, laterVars>>

\* lines 963-973: a completion call (the first or the second) rejects; the
\* error is not an AIServiceError and is wrapped
CompletionFails ==
  /\ apc \in {"await1", "await2"}
  /\ failures' = failures + 1
  /\ error' = AIServiceError("Failed to answer question")
  /\ apc' = "thrown"
  /\ UNCHANGED <<text, question, mockAI, qaModel, maxQaTokens, requests,
                 responses, result>>
  /\ UNCHANGED <<chunkVars, selectVars, laterVars>>

AnswerUnused ==
  /\ question = <<>>
  /\ mockAI = FALSE
  /\ qaModel = ""
  /\ maxQaTokens = 0
  /\ requests = <<>>
  /\ responses = <<>>
  /\ failures = 0
  /\ result = NoResult
  /\ error = NoError
  /\ apc = "idle"

----------------------------------------------------------------------------
(* chunkByTokens                                                           *)

approxCharsPerToken == 4
SentenceWindow == 400
MinStopOffset == 40
ProgressSlack == 10

\* The inner while loop: binary search for the largest end in [low, high]
\* whose slice fits maxTok tokens; bestEnd keeps its seed when none fits.
RECURSIVE ChunkSearch(_, _, _, _, _, _)
ChunkSearch(t, start, maxTok, low, high, bestEnd) ==
  IF low > high THEN bestEnd
  ELSE LET mid == (low + high) \div 2
           tokens == countTokensForText(Slice(t, start, mid))
       IN  IF tokens <= maxTok
             THEN ChunkSearch(t, start, maxTok, mid + 1, high, mid)
             ELSE ChunkSearch(t, start, maxTok, low, mid - 1, bestEnd)

\* variant of BestEnd: the optimistic bound is taken without the search
BestEndMutant(t, start, maxTok) ==
  Max(start + 1, Min(Len(t), start + maxTok * approxCharsPerToken * 2))

\* lines 212-231: the optimistic bound and the search
BestEnd(t, start, maxTok) ==
  ChunkSearch(t, start, maxTok, start + 1,
              Min(Len(t), start + maxTok * approxCharsPerToken * 2),
              start + 1)

\* lines 234-250: pull the end back to the last sentence stop of the window
SentenceEnd(t, start, bestEnd) ==
  LET searchWindow == Slice(t, Max(start, bestEnd - SentenceWindow), bestEnd)
      lastStop == Max(Max(LastIndexOf(searchWindow, <<".", "\n">>),
                          LastIndexOf(searchWindow, <<".", " ">>)),
                      LastIndexOf(searchWindow, <<"\n", "\n">>))
  IN  IF lastStop > MinStopOffset
        THEN Max(start + 1, bestEnd - (Len(searchWindow) - lastStop - 1))
        ELSE bestEnd

\* variant of NextStart: the next chunk starts one character too late
NextStartMutant(endChar, overlap) ==
  endChar + 1

\* the step of lines 257-258 without the test of line 260
NextStartUnguarded(endChar, overlap) ==
  Max(0, endChar - Max(0, overlap * approxCharsPerToken))

\* lines 257-260: step forward with overlap, "ensure progress"
\* (lastEndChar = endChar at this point, line 253)
NextStart(endChar, overlap) ==
  LET overlapChars == Max(0, overlap * approxCharsPerToken)
      s == Max(0, endChar - overlapChars)
  IN  IF s <= endChar - ProgressSlack THEN endChar ELSE s

\* line 202: if (!text.trim()) return []
ChunkEmpty ==
  /\ cpc = "idle"
  /\ IsBlank(text)
  /\ cpc' = "done"
  /\ UNCHANGED <<text, maxTokensPerChunk, overlapTokens, startChar,
                 lastEndChar, chunks, spans>>
  /\ UNCHANGED <<selectVars, answerVars, laterVars>>

\* lines 204-208: enter the loop
ChunkBegin ==
  /\ cpc = "idle"
  /\ ~IsBlank(text)
  /\ cpc' = "loop"
  /\ startChar' = 0
  /\ lastEndChar' = 0
  /\ chunks' = <<>>
  /\ spans' = <<>>
  /\ UNCHANGED <<text, maxTokensPerChunk, overlapTokens>>
  /\ UNCHANGED <<selectVars, answerVars, laterVars>>

\* lines 210-261: one iteration of the while loop.  The loop condition of
\* line 210 never fails after an iteration that did not break, since
\* NextStart <= endChar < Len(text).  The model stops a run after
\* Len(text) + 1 chunks: a loop whose ends strictly increase pushes at most
\* Len(text) chunks.
ChunkStep ==
  /\ cpc = "loop"
  /\ startChar < Len(text)
  /\ Len(chunks) <= Len(text)
  /\ LET bestEnd == BestEnd(text, startChar, maxTokensPerChunk)
         endChar == SentenceEnd(text, startChar, bestEnd)
     IN  /\ chunks' = Append(chunks, Slice(text, startChar, endChar))
         /\ spans' = Append(spans, <<startChar, endChar>>)
         /\ lastEndChar' = endChar
         /\ IF endChar >= Len(text)
              THEN /\ cpc' = "done"
                   /\ UNCHANGED startChar
              ELSE /\ startChar' = NextStart(endChar, overlapTokens)
                   /\ UNCHANGED cpc
  /\ UNCHANGED <<text, maxTokensPerChunk, overlapTokens>>
  /\ UNCHANGED <<selectVars, answerVars, laterVars>>

----------------------------------------------------------------------------
(* Inputs of the chunker                                                   *)

MaxPlain == 12
MaxTail == 7
MaxTok == 12
MaxOverlap == 3
LongLen == 450
LongTok == 110

SentenceStops == {<<".", " ">>, <<".", "\n">>, <<"\n", "\n">>}

ShortTexts ==
  {Rep("a", n) : n \in 0..MaxPlain}
  \cup {<<" ">>, <<"\n", " ", "\t">>}
  \cup {Rep("a", p) \o stop \o Rep("b", q) :
          p \in {40, 41, 45}, stop \in SentenceStops, q \in 0..MaxTail}

LongTexts ==
  {Rep("a", p) \o <<".", " ">> \o Rep("b", LongLen - p - 2) : p \in {60, 85}}

ChunkUnused ==
  /\ maxTokensPerChunk = 0
  /\ overlapTokens = 0
  /\ startChar = 0
  /\ lastEndChar = 0
  /\ chunks = <<>>
  /\ spans = <<>>
  /\ cpc = "idle"

ChunkInit ==
  /\ \/ /\ text \in ShortTexts
        /\ maxTokensPerChunk \in 1..MaxTok
     \/ /\ text \in LongTexts
        /\ maxTokensPerChunk = LongTok
  /\ overlapTokens \in 0..MaxOverlap
  /\ startChar = 0
  /\ lastEndChar = 0
  /\ chunks = <<>>
  /\ spans = <<>>
  /\ cpc = "idle"
  /\ SelectUnused
  /\ AnswerUnused
  /\ LaterUnused

ChunkNext == ChunkEmpty \/ ChunkBegin \/ ChunkStep

SpecChunk == ChunkInit /\ [][ChunkNext]_vars

----------------------------------------------------------------------------
(* Claims about chunkByTokens                                              *)

\* C1: every loop iteration of chunkByTokens produces a chunk whose end
\* offset is strictly greater than the end offset of the chunk before it
\* (so the loop reaches the end of the text after finitely many chunks).
C1_EndsStrictlyIncrease ==
  \A i \in 2..Len(spans) : spans[i][2] > spans[i - 1][2]

\* The chunks put end to end, each without the characters it shares with
\* its predecessor (prevEnd is the end offset reached so far).
RECURSIVE Reassemble(_, _, _, _)
Reassemble(cs, sp, i, prevEnd) ==
  IF i > Len(cs) THEN <<>>
  ELSE Slice(cs[i], prevEnd - sp[i][1], Len(cs[i]))
         \o Reassemble(cs, sp, i + 1, sp[i][2])

\* C2: when chunkByTokens returns for a text that is not whitespace-only,
\* the chunks are the substrings text[s_i, e_i) with s_1 = 0, no gap between
\* consecutive chunks (s_(i+1) <= e_i), e_last = length(text), and the chunks
\* concatenated with the overlaps removed are the text.
C2_ChunksCoverText ==
  (cpc = "done" /\ ~IsBlank(text)) =>
    /\ Len(chunks) >= 1
    /\ Len(spans) = Len(chunks)
    /\ spans[1][1] = 0
    /\ \A i \in 1..Len(chunks) :
         chunks[i] = Slice(text, spans[i][1], spans[i][2])
    /\ \A i \in 2..Len(spans) :
         /\ spans[i][1] <= spans[i - 1][2]
         /\ spans[i][1] >= 0
    /\ spans[Len(spans)][2] = Len(text)
    /\ Reassemble(chunks, spans, 1, 0) = text

\* a returned run of several chunks, with an overlap and with a chunk that
\* was cut at a sentence stop
C2_Witness ==
  /\ cpc = "done"
  /\ Len(chunks) >= 2
  /\ \E i \in 2..Len(spans) : spans[i][1] < spans[i - 1][2]
  /\ \E i \in 1..Len(spans) :
       spans[i][2] < BestEnd(text, spans[i][1], maxTokensPerChunk)

\* C3: every chunk pushed by chunkByTokens counts at most maxTokensPerChunk
\* tokens under the heuristic oracle, and the sentence-boundary cut only
\* moves a chunk's end back from the end the binary search found.
C3_ChunkWithinCeiling ==
  \A i \in 1..Len(chunks) :
    /\ countTokensForText(chunks[i]) <= maxTokensPerChunk
    /\ spans[i][2] <= BestEnd(text, spans[i][1], maxTokensPerChunk)
    /\ spans[i][2] > spans[i][1]

\* a chunk that fills its ceiling exactly, and one cut at a sentence stop
C3_Witness ==
  /\ \E i \in 1..Len(chunks) :
       countTokensForText(chunks[i]) = maxTokensPerChunk
  /\ \E i \in 1..Len(chunks) :
       spans[i][2] < BestEnd(text, spans[i][1], maxTokensPerChunk)

\* C13: chunkByTokens returns zero chunks for an empty or whitespace-only
\* text; whenever it returns for any other text it returns at least one
\* chunk, and every chunk it holds is a non-empty string.
C13_ChunksNonEmpty ==
  /\ \A i \in 1..Len(chunks) : Len(chunks[i]) >= 1
  /\ cpc = "done" =>
       IF Len(Trim(text)) = 0 THEN Len(chunks) = 0 ELSE Len(chunks) >= 1

\* a whitespace-only text of several characters, returned without a chunk
C13_Witness ==
  /\ cpc = "done"
  /\ Len(text) >= 2
  /\ Len(Trim(text)) = 0
  /\ chunks = <<>>

\* C21: for every pair of consecutive chunks produced by chunkByTokens
\* the next chunk's start lies in (previousEnd - 10, previousEnd]; in the
\* array the function returns it equals previousEnd - overlapTokens*4 when
\* overlapTokens*4 < 10 and previousEnd (zero overlap) when
\* overlapTokens*4 >= 10.
C21_OverlapBelowTen ==
  \A k \in 1..(Len(spans) - 1) :
    LET previousEnd == spans[k][2]
        start == spans[k + 1][1]
        overlapChars == overlapTokens * approxCharsPerToken
    IN  /\ previousEnd - ProgressSlack < start
        /\ start <= previousEnd
        /\ cpc = "done" =>
             start = IF overlapChars < ProgressSlack
                       THEN previousEnd - overlapChars
                       ELSE previousEnd

C21_Witness ==
  /\ cpc = "done"
  /\ Len(spans) >= 3
  /\ overlapTokens * approxCharsPerToken >= ProgressSlack
  /\ spans[2][1] = spans[1][2]

----------------------------------------------------------------------------
(* Inputs of the selector                                                  *)

MaxLines == 4
MaxBudget == 10
MaxRep == 10

\* Lines a document is made of: three headings (numbered, markdown, a
\* vocabulary word that is also a scoring keyword) and three body lines
\* (short, blank, long with a scoring keyword).
LineLib ==
  { <<"1", ".">>,
    <<"#", " ", "T">>,
    <<"R", "i", "s", "k">>,
    <<"a">>,
    <<>>,
    <<"-", " ", "p", "p", "e", " ", "1", "2", "3", "4", "5", "6", "7">> }

LineSeqs == UNION {[1..n -> LineLib] : n \in 0..MaxLines}

\* n copies of the smallest section: heading "1." and body "a"
RepLines(n) == [i \in 1..(2 * n) |-> IF i % 2 = 1 THEN <<"1", ".">> ELSE <<"a">>]

SelectInit ==
  /\ \/ /\ text \in {Join(ls, <<"\n">>) : ls \in LineSeqs}
        /\ maxTokens \in 0..MaxBudget
     \/ /\ text \in {Join(RepLines(n), <<"\n">>) : n \in 1..MaxRep}
        /\ maxTokens \in 0..(3 * MaxRep - 2)
  /\ selection = NoSelection
  /\ spc = "idle"
  /\ ChunkUnused
  /\ AnswerUnused
  /\ LaterUnused

SelectNext == Select

SpecSelect == SelectInit /\ [][SelectNext]_vars

----------------------------------------------------------------------------
(* Claims about selectRelevantText                                         *)

\* the token counts of the sections the scan rejected
RejectedTokens ==
  {selection.ranked[i].tokens : i \in selection.skipped}

MinOf(S) == CHOOSE x \in S : \A y \in S : x <= y

\* C4: the string selectRelevantText returns, separators included, counts
\* at most tokenBudget plus the token count of the smallest rejected section
\* (stated for the calls that rejected a section).
C4_BudgetRespected ==
  (spc = "done" /\ RejectedTokens # {}) =>
    countTokensForText(selection.out) <= maxTokens + MinOf(RejectedTokens)

\* C5: for a non-empty text and tokenBudget >= 1 the returned string is
\* non-empty.
C5_NonEmptyResult ==
  (spc = "done" /\ Len(text) >= 1 /\ maxTokens >= 1) =>
    Len(selection.out) >= 1

\* a call on a text whose sections are all too large for the budget, which
\* fell back to the prefix
C5_Witness ==
  /\ spc = "done" /\ maxTokens >= 1
  /\ Len(selection.ranked) >= 1
  /\ selection.fallback
  /\ Len(selection.out) >= 1

\* the token counts of the accepted sections ranked before i, summed
RECURSIVE AcceptedBefore(_)
AcceptedBefore(i) ==
  IF i <= 1 THEN 0
  ELSE AcceptedBefore(i - 1) +
       (IF (i - 1) \in selection.accepted
          THEN selection.ranked[i - 1].tokens ELSE 0)

\* C22: selectRelevantText skips a section whose token count would make
\* the running total exceed tokenBudget and goes on with the following
\* candidates: a section is accepted exactly if it fits in the budget that
\* remains at its turn in ranked order, and the running total of the
\* accepted sections never exceeds tokenBudget.
C22_GreedyScan ==
  spc = "done" =>
    /\ \A i \in 1..Len(selection.ranked) :
         /\ i \in selection.accepted <=>
              AcceptedBefore(i) + selection.ranked[i].tokens <= maxTokens
         /\ AcceptedBefore(i) <= maxTokens
    /\ selection.used = AcceptedBefore(Len(selection.ranked) + 1)
    /\ selection.used <= maxTokens

\* a section was skipped and a later one was accepted
C22_Witness ==
  /\ spc = "done"
  /\ \E i \in selection.skipped, j \in selection.accepted : i < j

\* the picked strings of the accepted sections from rank i on, in rank order
RECURSIVE AcceptedTextFrom(_)
AcceptedTextFrom(i) ==
  IF i > Len(selection.ranked) THEN <<>>
  ELSE (IF i \in selection.accepted
          THEN PickedText(selection.ranked[i].s) ELSE <<>>)
       \o AcceptedTextFrom(i + 1)

\* C23: the sections in the string returned by selectRelevantText appear in
\* non-increasing order of keywordScore + max(0, 1000 - tokenCount)/1000,
\* and an accepted section with a strictly higher keywordScore precedes
\* every accepted section with a lower keywordScore whatever their token
\* counts.
C23_RankedOrder ==
  (spc = "done" /\ ~selection.fallback) =>
    /\ selection.out = AcceptedTextFrom(1)
    /\ \A i, j \in selection.accepted :
         LET a == selection.ranked[i]
             b == selection.ranked[j]
         IN  /\ i < j =>
                  a.kw * LengthScale + Max(0, LengthScale - a.tokens)
                    >= b.kw * LengthScale + Max(0, LengthScale - b.tokens)
             /\ a.kw > b.kw => i < j

\* two accepted sections: the first of the output comes later in the
\* document, scores more keywords and counts more tokens than the second
C23_Witness ==
  /\ spc = "done"
  /\ {1, 2} \subseteq selection.accepted
  /\ selection.ranked[1].kw > selection.ranked[2].kw
  /\ selection.ranked[1].tokens > selection.ranked[2].tokens
  /\ selection.ranked[2].s = splitIntoSections(text)[1]

\* the offsets p of [0, min(length, 8 * budget)] whose prefix fits the budget
FittingPrefixes ==
  {p \in 0..Min(Len(text), FallbackHighFactor * maxTokens) :
     countTokensForText(SubSeq(text, 1, p)) <= maxTokens}

MaxOf(S) == CHOOSE x \in S : \A y \in S : y <= x

\* C6: when no section is accepted and tokenBudget >= 1, the call returns
\* text[0, p) of the original text with p the largest offset of
\* [0, min(length, 8 * budget)] whose prefix counts at most budget tokens;
\* p = min(length, 4 * budget), so a longer text is never returned whole.
C6_FallbackPrefix ==
  (spc = "done" /\ maxTokens >= 1 /\ selection.accepted = {}) =>
    /\ selection.fallback
    /\ selection.out = SubSeq(text, 1, MaxOf(FittingPrefixes))
    /\ MaxOf(FittingPrefixes) = Min(Len(text), 4 * maxTokens)
    /\ (Len(text) > 4 * maxTokens => selection.out # text)

\* a fallback on a text that has sections, all too large, and is longer
\* than 4 * budget characters
C6_Witness ==
  /\ spc = "done" /\ maxTokens >= 1
  /\ selection.accepted = {}
  /\ Len(selection.ranked) >= 2
  /\ Len(text) > 4 * maxTokens
  /\ Len(selection.out) = 4 * maxTokens

----------------------------------------------------------------------------
(* Inputs of answerQuestion                                                *)

AnswerTexts ==
  { <<" ", "\n">>,
    <<"W", "e", "a", "r", " ", "P", "P", "E", ".", " ", "p", "p", "e", " ", "o", "n">>,
    <<"n", "o", " ", "r", "u", "l", "e", "s">> }

Questions ==
  { <<" ">>,
    <<"P", "P", "E", "?">>,
    <<"i", "s", " ", "i", "t">> }

\* The texts a completion may come back with: the five markers in several
\* letter cases, near misses, and an empty answer.
AnswerLib ==
  { <<"I", " ", "C", "a", "n", "'", "t", " ", "F", "i", "n", "d", " ", "i", "t">>,
    <<"I", "N", "S", "U", "F", "F", "I", "C", "I", "E", "N", "T", " ",
      "c", "o", "n", "t", "e", "x", "t">>,
    <<"N", "o", "t", " ", "p", "r", "o", "v", "i", "d", "e", "d", ".">>,
    <<" ", "u", "n", "c", "l", "e", "a", "r", "\n">>,
    <<"U", "n", "s", "p", "e", "c", "i", "f", "i", "e", "d">>,
    <<"c", "a", "n", "t", " ", "f", "i", "n", "d">>,
    <<"n", "o", "t", " ", " ", "p", "r", "o", "v", "i", "d", "e", "d">>,
    <<"I", "t", " ", "i", "s", " ", "c", "l", "e", "a", "r", ".">>,
    <<>> }

\* the token counts a response reports (a missing usage field reads as 0)
InputCounts == {0, 120}
OutputCounts == {0, 90}

Responses ==
  [text : AnswerLib, inputTokens : InputCounts, outputTokens : OutputCounts]

\* the arguments and configuration of one call of answerQuestion
AnswerInputs ==
  /\ text \in AnswerTexts
  /\ question \in Questions
  /\ mockAI \in BOOLEAN
  /\ qaModel \in {HaikuModel, "unpriced-model"}
  /\ maxQaTokens \in {2, 1800}
  /\ requests = <<>>
  /\ responses = <<>>
  /\ failures = 0
  /\ result = NoResult
  /\ error = NoError
  /\ apc = "idle"
  /\ ChunkUnused
  /\ SelectUnused
  /\ SnippetUnused
  /\ SplitUnused
  /\ CountUnused

AnswerInit == AnswerInputs /\ PipeUnused /\ ServerUnused

AnswerNext ==
  \/ AnswerRejectText
  \/ AnswerRejectQuestion
  \/ AnswerMock
  \/ AnswerPass1
  \/ \E resp \in Responses : Pass1Confident(resp)
  \/ \E resp \in Responses : Pass1Escalate(resp)
  \/ \E resp \in Responses : Pass2Return(resp)
  \/ CompletionFails

SpecAnswer == AnswerInit /\ [][AnswerNext]_vars

----------------------------------------------------------------------------
(* Claims about answerQuestion                                             *)

\* the marker substrings as the claim lists them
ClaimMarkers ==
  { <<"c", "a", "n", "'", "t", " ", "f", "i", "n", "d">>,
    <<"i", "n", "s", "u", "f", "f", "i", "c", "i", "e", "n", "t", " ",
      "c", "o", "n", "t", "e", "x", "t">>,
    <<"n", "o", "t", " ", "p", "r", "o", "v", "i", "d", "e", "d">>,
    <<"u", "n", "c", "l", "e", "a", "r">>,
    <<"u", "n", "s", "p", "e", "c", "i", "f", "i", "e", "d">> }

\* s contains one of the markers, letter case ignored
HasMarker(s) ==
  \E m \in ClaimMarkers : \E i \in 1..Len(s) :
    /\ i + Len(m) - 1 <= Len(s)
    /\ \A j \in 1..Len(m) : ToLowerChar(s[i + j - 1]) = m[j]

\* C7: outside simulation mode a second completion request is issued if and
\* only if the first-pass answer contains, case-insensitively, one of the
\* five marker substrings; before the first answer arrives, and in
\* simulation mode, there is no second request.
C7_EscalatesIffMarker ==
  /\ mockAI => Len(requests) = 0
  /\ Len(responses) = 0 => Len(requests) <= 1
  /\ Len(responses) >= 1 =>
       (Len(requests) >= 2 <=> HasMarker(responses[1].text))

\* a second request after a first answer that spells its marker in mixed case
C7_Witness ==
  /\ Len(requests) = 2
  /\ responses[1].text =
       <<"I", " ", "C", "a", "n", "'", "t", " ", "F", "i", "n", "d", " ", "i", "t">>

RECURSIVE SumField(_, _, _)
SumField(rs, i, inputSide) ==
  IF i > Len(rs) THEN 0
  ELSE (IF inputSide THEN rs[i].inputTokens ELSE rs[i].outputTokens)
       + SumField(rs, i + 1, inputSide)

C9_EscalatesAtMostOnce ==
  /\ Len(requests) <= 2
  /\ Len(responses) <= Len(requests)
  /\ Len(requests) = 2 => apc \in {"await2", "returned", "thrown"}
  /\ apc = "await2" => (Len(requests) = 2 /\ Len(responses) = 1)
  /\ Len(responses) = 2 =>
       /\ apc = "returned"
       /\ result.passes = 2
       /\ result.answer = Trim(responses[2].text)

\* a second-pass answer that itself carries a marker is returned
C9_Witness ==
  /\ apc = "returned"
  /\ Len(responses) = 2
  /\ HasMarker(responses[2].text)
  /\ result.answer = Trim(responses[2].text)

\* C10: a failed completion call is not retried: after a failure of the
\* first or the second call no further request is issued, the call rejects
\* with the wrapped service error and resolves with nothing, the first-pass
\* answer included.
C10_NoRetryOnFailure ==
  failures >= 1 =>
    /\ failures = 1
    /\ Len(requests) = Len(responses) + 1
    /\ apc = "thrown"
    /\ error = [name |-> "AIServiceError",
                message |-> "AI Service Error: Failed to answer question",
                statusCode |-> 500]
    /\ result = NoResult

\* the second pass failed after an escalation
C10_Witness ==
  /\ failures = 1
  /\ Len(responses) = 1
  /\ Len(requests) = 2
  /\ apc = "thrown"

----------------------------------------------------------------------------
(* extractRelevantSnippets as an operation                                 *)

\* One call: the keywords it extracted, the windows it built (none on the
\* early return of lines 470-473) and the string it returned.
SnippetCall(t, q, target, k, overlap) ==
  LET kws == QuestionKeywords(q)
  IN  [keywords |-> kws,
       windows  |-> IF Len(kws) = 0 THEN <<>>
                    ELSE SnippetCandidates(t, q, target, overlap),
       out      |-> extractRelevantSnippets(t, q, target, k, overlap)]

Extract ==
  /\ xpc = "idle"
  /\ snippets' = SnippetCall(text, snippetQuestion, snippetTarget,
                             snippetTopK, snippetOverlap)
  /\ xpc' = "done"
  /\ UNCHANGED <<text, snippetQuestion, snippetTarget, snippetTopK,
                 snippetOverlap>>
  /\ UNCHANGED outsideSnippet

----------------------------------------------------------------------------
(* Inputs of extractRelevantSnippets                                       *)

MaxFrags == 3
MaxTarget == 2
MaxTopK == 3

Fragments ==
  { <<"p", "p", "e", " ">>, <<"H", "a", "t", ".">>, <<"a", "b", "\n", "c">> }

SnippetTexts ==
  UNION { {Concat(f) : f \in [1..n -> Fragments]} : n \in 0..MaxFrags }

\* questions without a keyword (empty, blank, words of one or two
\* characters) and with one or two keywords
SnippetQuestions ==
  { <<>>,
    <<" ", "\n">>,
    <<"i", "s", " ", "i", "t", "?">>,
    <<"P", "P", "E", "?">>,
    <<"x", "y", "z">>,
    <<"h", "a", "t", " ", "p", "p", "e">> }

\* texts with up to MaxCapRep repetitions of one keyword on either side of
\* another, read through windows of CapTarget * 4 characters
MaxCapRep == 8
CapTarget == 6

CapTexts ==
  { Concat([i \in 1..a |-> <<"p", "p", "e">>]) \o <<"H", "a", "t", ".">>
      \o Concat([i \in 1..b |-> <<"p", "p", "e">>]) :
      a \in 0..MaxCapRep, b \in 0..MaxCapRep }

CapQuestions ==
  { <<"P", "P", "E", "?">>, <<"h", "a", "t", " ", "p", "p", "e">> }

SnippetInit ==
  /\ \/ /\ text \in SnippetTexts
        /\ snippetQuestion \in SnippetQuestions
        /\ snippetTarget \in 1..MaxTarget
     \/ /\ text \in CapTexts
        /\ snippetQuestion \in CapQuestions
        /\ snippetTarget = CapTarget
  /\ snippetTopK \in 0..MaxTopK
  /\ snippetOverlap \in 0..(MaxOverlapTenths + 1)
  /\ snippets = NoSnippets
  /\ xpc = "idle"
  /\ ChunkUnused
  /\ SelectUnused
  /\ AnswerUnused
  /\ PipeUnused
  /\ ServerUnused
  /\ SplitUnused
  /\ CountUnused

SnippetNext == Extract

SpecSnippet == SnippetInit /\ [][SnippetNext]_vars

----------------------------------------------------------------------------
(* Claims about extractRelevantSnippets                                    *)

\* the question holds a run of more than two characters of [a-z0-9] once
\* lower-cased
HasKeyword(q) ==
  \E i \in 1..Len(q) :
    /\ i + MinKeywordLen <= Len(q)
    /\ \A j \in i..(i + MinKeywordLen) : ToLowerChar(q[j]) \in AlnumLower

\* C11: called with a question from which no keyword can be extracted, the
\* call returns exactly text.slice(0, targetTokens*4) and builds no window.
C11_NoKeywordHead ==
  (xpc = "done" /\ ~HasKeyword(snippetQuestion)) =>
    /\ snippets.out = Slice(text, 0, snippetTarget * 4)
    /\ snippets.windows = <<>>

\* a keyword-less question over a text longer than the head returned
C11_Witness ==
  /\ xpc = "done"
  /\ ~HasKeyword(snippetQuestion)
  /\ Len(snippetQuestion) > 0
  /\ Len(text) > snippetTarget * 4
  /\ Len(snippets.out) = snippetTarget * 4

\* the sum over the keywords of min(2 * occurrences, 10) for a window text
RECURSIVE CappedSum(_, _)
CappedSum(l, kws) ==
  IF kws = <<>> THEN 0
  ELSE Min(OccurrenceWeight * Occurrences(l, Head(kws), 0), OccurrenceCap)
       + CappedSum(l, Tail(kws))

\* the place of window i when the windows are listed by descending score,
\* windows of equal score in window order
PlaceOf(i) ==
  Cardinality({j \in 1..Len(snippets.windows) :
                 \/ snippets.windows[j].score > snippets.windows[i].score
                 \/ /\ snippets.windows[j].score = snippets.windows[i].score
                    /\ j < i}) + 1

WindowAt(place) ==
  snippets.windows[CHOOSE i \in 1..Len(snippets.windows) : PlaceOf(i) = place]

\* C26: when at least one keyword is extracted, extractRelevantSnippets
\* returns the min(max(1, topK), number of windows) windows with the
\* highest scores, in non-increasing score order, joined by the divider; a
\* window's score is the sum over the keywords of min(2 * occurrences, 10),
\* so it never exceeds 10 * (number of keywords).
C26_TopWindows ==
  (xpc = "done" /\ Len(snippets.keywords) >= 1) =>
    LET n == Min(Max(1, snippetTopK), Len(snippets.windows))
    IN  /\ snippets.out = Join([place \in 1..n |-> WindowAt(place).s], Divider)
        /\ \A place \in 1..(n - 1) :
             WindowAt(place).score >= WindowAt(place + 1).score
        /\ \A i \in 1..Len(snippets.windows) :
             /\ PlaceOf(i) > n => snippets.windows[i].score <= WindowAt(n).score
             /\ snippets.windows[i].score =
                  CappedSum(ToLower(snippets.windows[i].s), snippets.keywords)
             /\ snippets.windows[i].score
                  <= OccurrenceCap * Len(snippets.keywords)

\* a window with more than five occurrences of a keyword is outranked by a
\* later window with fewer occurrences of it and one of another keyword,
\* and not every window is returned
C26_Witness ==
  /\ xpc = "done"
  /\ Len(snippets.keywords) = 2
  /\ Len(snippets.windows) > Max(1, snippetTopK)
  /\ \E i, j \in 1..Len(snippets.windows) :
       /\ i < j
       /\ OccurrenceWeight *
            Occurrences(ToLower(snippets.windows[i].s), snippets.keywords[2], 0)
              > OccurrenceCap
       /\ snippets.windows[i].score = OccurrenceCap
       /\ snippets.windows[j].score > OccurrenceCap
       /\ PlaceOf(j) = 1

\* C27: for targetTokens >= 1, a non-empty text and any overlapRatio, the
\* windows [k*stride, min(length, k*stride + windowChars)) built by
\* extractRelevantSnippets cover every character offset of the text, the
\* last window ends exactly at length(text) and is the only one that does
\* (the loop ends there), and 1 <= stride < windowChars.
C27_WindowsCoverText ==
  (xpc = "done" /\ Len(snippets.keywords) >= 1 /\ Len(text) >= 1) =>
    LET windowChars == snippetTarget * 4
        stride == StrideOf(windowChars, snippetOverlap)
        n == Len(snippets.windows)
    IN  /\ stride >= 1
        /\ stride < windowChars
        /\ n >= 1
        /\ \A k \in 1..n :
             /\ snippets.windows[k].from = (k - 1) * stride
             /\ snippets.windows[k].to =
                  Min(Len(text), (k - 1) * stride + windowChars)
             /\ snippets.windows[k].to = Len(text) <=> k = n
        /\ \A offset \in 0..(Len(text) - 1) :
             \E k \in 1..n : /\ snippets.windows[k].from <= offset
                             /\ offset < snippets.windows[k].to

\* a call whose stride was raised to 1 and that built more than two
\* windows shorter than the text
C27_Witness ==
  /\ xpc = "done"
  /\ Len(snippets.keywords) >= 1
  /\ snippetOverlap >= MaxOverlapTenths
  /\ Len(snippets.windows) > 2
  /\ snippets.windows[2].from = 1
  /\ snippets.windows[Len(snippets.windows)].to = Len(text)

\* C12: when the question yields a keyword but no keyword occurs anywhere
\* in the text, the call returns exactly the first targetTokens*4
\* characters of the text, for every topK and overlapRatio.
C12_ZeroScoreHead ==
  ( /\ xpc = "done"
    /\ HasKeyword(snippetQuestion)
    /\ \A i \in 1..Len(snippets.keywords) :
         ~Includes(ToLower(text), snippets.keywords[i]) )
  => snippets.out = Slice(text, 0, snippetTarget * 4)

----------------------------------------------------------------------------
(* generateSummaryAndKeyPoints, compareDocuments, handleChatbotMessage:    *)
(* the input test, the stages in order, and how a failing stage surfaces.  *)
(* A stage that the code wraps in try/catch may throw; the text work       *)
(* inside selectRelevantText and chunkByTokens is modelled above, here a   *)
(* stage is one call and chunkByTokens yields a number of chunks.          *)

Summarize == "generateSummaryAndKeyPoints"
Compare == "compareDocuments"
Chat == "handleChatbotMessage"

\* an entry of the call history; part is the chunk number of a per-chunk
\* request and 0 otherwise
Call(name, part) == [call |-> name, part |-> part]

\* variant of InputsMissing: no input is refused
NothingMissing(in) == FALSE

\* !text.trim()  |  !doc1Text.trim() || !doc2Text.trim()  |  !message.trim()
InputsMissing(in) == \E i \in 1..Len(in) : IsBlank(in[i])

EmptyInputMessage(o) ==
  CASE o = Summarize -> "Empty text provided for summarization"
    [] o = Compare   -> "Both documents must have content for comparison"
    [] o = Chat      -> "Empty message provided"

\* the message of the outer catch, for an error that is no AIServiceError
OuterCatchMessage(o) ==
  CASE o = Summarize -> "Failed to generate document summary"
    [] o = Compare   -> "Failed to compare documents"
    [] o = Chat      -> "Failed to process chatbot message"

SummarizeChunkMessage(i) == "Failed to summarize chunk " \o ToString(i)

\* lines 287-289, 532-534, 637-639: the test ahead of the try block
PipeReject ==
  /\ ppc = "idle"
  /\ op \in {Summarize, Compare, Chat}
  /\ InputsMissing(inputs)
  /\ raised' = AIServiceError(EmptyInputMessage(op))
  /\ ppc' = "thrown"
  /\ UNCHANGED <<op, inputs, pipeMock, settled, chunkSummaries,
                 work, nChunks, pending, fulfilled,
                 rejected, failedStage>>
  /\ UNCHANGED outsidePipe

\* line 295: selectRelevantText returned
SummarySelect ==
  /\ ppc = "idle"
  /\ op = Summarize
  /\ ~InputsMissing(inputs)
  /\ work' = Append(work, Call("selectRelevantText", 0))
  /\ ppc' = "selected"
  /\ UNCHANGED <<op, inputs, pipeMock, settled, chunkSummaries,
                 nChunks, pending, fulfilled, rejected,
                 failedStage, raised>>
  /\ UNCHANGED outsidePipe

\* lines 186-194 and 445-447: selectRelevantText threw its AIServiceError,
\* which the outer catch passes on
SummarySelectFails ==
  /\ ppc = "idle"
  /\ op = Summarize
  /\ ~InputsMissing(inputs)
  /\ work' = Append(work, Call("selectRelevantText", 0))
  /\ failedStage' = "selection"
  /\ raised' = AIServiceError("Failed to process document text")
  /\ ppc' = "thrown"
  /\ UNCHANGED <<op, inputs, pipeMock, settled, chunkSummaries,
                 nChunks, pending, fulfilled, rejected>>
  /\ UNCHANGED outsidePipe

\* lines 296-382: chunkByTokens returned n chunks.  None: the call throws.
\* Simulation mode: the partial summaries and the result are built locally
\* (lines 311-323 and 390-411).  Otherwise chunks.map issues one request
\* per chunk, in chunk order, before anything is awaited.
SummaryChunk(n) ==
  /\ ppc = "selected"
  /\ nChunks' = n
  /\ IF n = 0
       THEN /\ work' = Append(work, Call("chunkByTokens", 0))
            /\ failedStage' = "no chunks"
            /\ raised' = AIServiceError("No content chunks generated from document")
            /\ ppc' = "thrown"
            /\ UNCHANGED <<pending, chunkSummaries>>
       ELSE IF pipeMock
         THEN /\ work' = Append(work, Call("chunkByTokens", 0))
              /\ chunkSummaries' = [k \in 1..n |-> k]
              /\ ppc' = "returned"
              /\ UNCHANGED <<pending, failedStage, raised>>
         ELSE /\ work' = Append(work, Call("chunkByTokens", 0))
                           \o [i \in 1..n |-> Call("messages.create", i)]
              /\ pending' = 1..n
              /\ ppc' = "chunks"
              /\ UNCHANGED <<chunkSummaries, failedStage, raised>>
  /\ UNCHANGED <<op, inputs, pipeMock, settled, fulfilled, rejected>>
  /\ UNCHANGED outsidePipe

\* lines 270-280 and 445-447: chunkByTokens threw its AIServiceError
SummaryChunkFails ==
  /\ ppc = "selected"
  /\ work' = Append(work, Call("chunkByTokens", 0))
  /\ failedStage' = "chunking"
  /\ raised' = AIServiceError("Failed to chunk text for processing")
  /\ ppc' = "thrown"
  /\ UNCHANGED <<op, inputs, pipeMock, settled, chunkSummaries,
                 nChunks, pending, fulfilled, rejected>>
  /\ UNCHANGED outsidePipe

\* lines 346-366: the request of chunk i returned; its promise is fulfilled
\* (also after Promise.all has rejected: the other requests are not
\* cancelled)
ChunkFulfilled(i) ==
  /\ i \in pending
  /\ pending' = pending \ {i}
  /\ fulfilled' = fulfilled \cup {i}
  /\ settled' = Append(settled, i)
  /\ UNCHANGED <<op, inputs, pipeMock, chunkSummaries, work, nChunks,
                 rejected, failedStage,
                 raised, ppc>>
  /\ UNCHANGED outsidePipe

\* variant of ChunkRejected: the failure of a chunk is swallowed
ChunkRejectedSwallowed(i) ==
  /\ i \in pending
  /\ pending' = pending \ {i}
  /\ rejected' = rejected \cup {i}
  /\ settled' = Append(settled, i)
  /\ UNCHANGED <<op, inputs, pipeMock, chunkSummaries, work, nChunks,
                 fulfilled, failedStage,
                 raised, ppc>>
  /\ UNCHANGED outsidePipe

\* lines 367-378, 381 and 445-447: the request of chunk i threw; the map
\* callback throws AIServiceError, Promise.all rejects with the first such
\* error and the outer catch passes it on.  Later rejections are dropped.
ChunkRejected(i) ==
  /\ i \in pending
  /\ pending' = pending \ {i}
  /\ rejected' = rejected \cup {i}
  /\ IF ppc = "chunks"
       THEN /\ failedStage' = "chunk"
            /\ raised' = AIServiceError(SummarizeChunkMessage(i))
            /\ ppc' = "thrown"
       ELSE UNCHANGED <<failedStage, raised, ppc>>
  /\ settled' = Append(settled, i)
  /\ UNCHANGED <<op, inputs, pipeMock, chunkSummaries, work, nChunks,
                 fulfilled>>
  /\ UNCHANGED outsidePipe

\* variant of PromiseAll: the values in the order the promises settled
InSettleOrder(order, n) == order

\* line 381: await Promise.all(chunkPromises) resolves to the array whose
\* element k is the value of promise k, whatever the order the promises
\* settled in; the value of promise k is the summary of chunk k (line 325)
PromiseAll(order, n) == [k \in 1..n |-> k]

\* lines 381-418: Promise.all resolved, its values are pushed to
\* chunkSummaries and the synthesis request is issued with them as parts
SummarySynthesize ==
  /\ ppc = "chunks"
  /\ pending = {}
  /\ chunkSummaries' = PromiseAll(settled, nChunks)
  /\ work' = Append(work, Call("messages.create", 0))
  /\ ppc' = "awaiting"
  /\ UNCHANGED <<op, inputs, pipeMock, settled, nChunks, pending, fulfilled,
                 rejected,
                 failedStage, raised>>
  /\ UNCHANGED outsidePipe

\* lines 569-579 and 688-707: simulation mode of chat (one oracle call) and
\* of compare (the estimate is computed in place)
PipeMock ==
  /\ ppc = "idle"
  /\ op \in {Compare, Chat}
  /\ ~InputsMissing(inputs)
  /\ pipeMock
  /\ work' = IF op = Chat THEN Append(work, Call("countTokensForText", 0))
             ELSE work
  /\ ppc' = "returned"
  /\ UNCHANGED <<op, inputs, pipeMock, settled, chunkSummaries,
                 nChunks, pending, fulfilled, rejected,
                 failedStage, raised>>
  /\ UNCHANGED outsidePipe

\* lines 581-587 and 709-723: the single completion request
PipeRequest ==
  /\ ppc = "idle"
  /\ op \in {Compare, Chat}
  /\ ~InputsMissing(inputs)
  /\ ~pipeMock
  /\ work' = Append(work, Call("messages.create", 0))
  /\ ppc' = "awaiting"
  /\ UNCHANGED <<op, inputs, pipeMock, settled, chunkSummaries,
                 nChunks, pending, fulfilled, rejected,
                 failedStage, raised>>
  /\ UNCHANGED outsidePipe

\* the awaited request returned and the result is built
PipeReturn ==
  /\ ppc = "awaiting"
  /\ ppc' = "returned"
  /\ UNCHANGED <<op, inputs, pipeMock, settled, chunkSummaries,
                 work, nChunks, pending, fulfilled,
                 rejected, failedStage, raised>>
  /\ UNCHANGED outsidePipe

\* lines 441-454, 610-624, 773-784: the awaited request threw
PipeFails ==
  /\ ppc = "awaiting"
  /\ failedStage' = "request"
  /\ raised' = AIServiceError(OuterCatchMessage(op))
  /\ ppc' = "thrown"
  /\ UNCHANGED <<op, inputs, pipeMock, settled, chunkSummaries,
                 work, nChunks, pending, fulfilled,
                 rejected>>
  /\ UNCHANGED outsidePipe

----------------------------------------------------------------------------
(* Inputs of the four exported functions                                   *)

MaxChunks == 3

PipeTexts == { <<>>, <<" ", "\n">>, <<"P", "P", "E">> }

PipeInit ==
  /\ \/ /\ op \in {Summarize, Chat}
        /\ inputs \in {<<t>> : t \in PipeTexts}
     \/ /\ op = Compare
        /\ inputs \in {<<a, b>> : a \in PipeTexts, b \in PipeTexts}
  /\ pipeMock \in BOOLEAN
  /\ work = <<>>
  /\ nChunks = 0
  /\ pending = {}
  /\ fulfilled = {}
  /\ rejected = {}
  /\ settled = <<>>
  /\ chunkSummaries = <<>>
  /\ failedStage = "none"
  /\ raised = NoError
  /\ ppc = "idle"
  /\ text = <<>>
  /\ ChunkUnused
  /\ SelectUnused
  /\ AnswerUnused
  /\ SnippetUnused
  /\ SplitUnused
  /\ CountUnused
  /\ ServerUnused

PipeNext ==
  \/ PipeReject
  \/ SummarySelect
  \/ SummarySelectFails
  \/ \E n \in 0..MaxChunks : SummaryChunk(n)
  \/ SummaryChunkFails
  \/ \E i \in 1..MaxChunks : ChunkFulfilled(i)
  \/ \E i \in 1..MaxChunks : ChunkRejected(i)
  \/ SummarySynthesize
  \/ PipeMock
  \/ PipeRequest
  \/ PipeReturn
  \/ PipeFails

\* one call of one of the four exported functions; answerQuestion is the
\* operation of the answer group (op = "none" in this group)
EntryInit == AnswerInit \/ PipeInit

EntryNext == (op = "none" /\ AnswerNext) \/ PipeNext

SpecEntry == EntryInit /\ [][EntryNext]_vars

----------------------------------------------------------------------------
(* Claims about the input test and the failure of a stage                  *)

\* an empty or whitespace-only string
BlankInput(t) == Len(Trim(t)) = 0

\* the call was made with a required input that is empty or whitespace-only
\* and has failed
FailedOnBlankInput ==
  \/ /\ ppc = "thrown"
     /\ \E i \in 1..Len(inputs) : BlankInput(inputs[i])
  \/ /\ apc = "thrown"
     /\ BlankInput(text) \/ BlankInput(question)

\* C14: answerQuestion, generateSummaryAndKeyPoints, compareDocuments and
\* handleChatbotMessage called with an empty or whitespace-only required
\* input fail immediately: no oracle call, no section, chunk or snippet
\* work and no completion request happens before the failure is raised.
C14_BlankInputFailsFirst ==
  FailedOnBlankInput =>
    /\ work = <<>>
    /\ nChunks = 0
    /\ pending \cup fulfilled \cup rejected = {}
    /\ requests = <<>>
    /\ responses = <<>>
    /\ result = NoResult

\* compareDocuments refused for its second document alone
C14_Witness ==
  /\ op = Compare
  /\ ppc = "thrown"
  /\ ~BlankInput(inputs[1])
  /\ BlankInput(inputs[2])
  /\ Len(inputs[2]) > 0
  /\ work = <<>>

\* C15: the failure raised for an empty or whitespace-only input is of the
\* client-error class (validation kind, HTTP 4xx status), not of the
\* service-error class (5xx).
C15_BlankInputIsClientError ==
  FailedOnBlankInput =>
    /\ (ppc = "thrown" =>
          raised.statusCode \in 400..499 /\ raised.name = "ValidationError")
    /\ (apc = "thrown" =>
          error.statusCode \in 400..499 /\ error.name = "ValidationError")

\* the message a failing stage gives its error
StageMessage(stage) ==
  CASE stage = "selection" -> "AI Service Error: Failed to process document text"
    [] stage = "chunking"  -> "AI Service Error: Failed to chunk text for processing"

SynthesisRequested ==
  \E k \in 1..Len(work) : work[k] = Call("messages.create", 0)

\* C16: in generateSummaryAndKeyPoints a failure inside selection, chunking
\* or any per-chunk summarization makes the whole operation fail with a
\* wrapped service error naming the failing stage; no synthesis request is
\* issued after such a failure and no partial summary is ever returned.
C16_StageFailureFailsAll ==
  (op = Summarize /\ (failedStage \in {"selection", "chunking"} \/ rejected # {}))
  =>
    /\ ppc = "thrown"
    /\ raised.name = "AIServiceError"
    /\ raised.statusCode = ServerErrorStatus
    /\ IF rejected # {}
         THEN \E i \in rejected :
                raised.message =
                  "AI Service Error: Failed to summarize chunk " \o ToString(i)
         ELSE raised.message = StageMessage(failedStage)
    /\ ~SynthesisRequested

\* one chunk failed, the others returned their summaries afterwards
C16_Witness ==
  /\ op = Summarize
  /\ nChunks >= 3
  /\ Cardinality(rejected) = 1
  /\ Cardinality(fulfilled) = nChunks - 1
  /\ pending = {}
  /\ ppc = "thrown"

\* C29: in generateSummaryAndKeyPoints the per-chunk requests run
\* concurrently (all are issued before any is awaited) and may complete in
\* any order, yet part i handed to the synthesis step is the summary of
\* chunk i, and the synthesis request is issued only after every chunk
\* request has completed successfully.
C29_PartsInChunkOrder ==
  op = Summarize =>
    /\ ppc = "chunks" =>
         \A i \in 1..nChunks :
           \E k \in 1..Len(work) : work[k] = Call("messages.create", i)
    /\ SynthesisRequested =>
         /\ pending = {}
         /\ rejected = {}
         /\ fulfilled = 1..nChunks
         /\ Len(chunkSummaries) = nChunks
         /\ \A i \in 1..nChunks : chunkSummaries[i] = i

\* three chunks, the request of the last one completed first
C29_Witness ==
  /\ op = Summarize
  /\ SynthesisRequested
  /\ nChunks = 3
  /\ settled[1] = 3
  /\ chunkSummaries = <<1, 2, 3>>

----------------------------------------------------------------------------
(* repositories/documents.ts: table documents                              *)

ClientErrorStatus == 400

\* new ValidationError(message)
ValidationError(message) ==
  [name |-> "ValidationError", message |-> message,
   statusCode |-> ClientErrorStatus]

SqlNull == "NULL"
Undefined == [processing_status |-> "undefined", summary |-> SqlNull,
              deleted_at |-> SqlNull]

Statuses == {"uploaded", "processing", "completed", "failed"}

\* !Number.isInteger(id) || id <= 0
InvalidId(id) == id <= 0

\* SELECT * FROM documents WHERE id = ? AND deleted_at IS NULL
getDocumentById(rows, id) ==
  IF id \in 1..Len(rows) /\ rows[id].deleted_at = SqlNull
    THEN rows[id] ELSE Undefined

\* SELECT id, ... FROM documents WHERE deleted_at IS NULL: the ids listed
listDocuments(rows) == {id \in 1..Len(rows) : rows[id].deleted_at = SqlNull}

\* The repository functions below say what a call does to the table and to
\* the history; the step that makes the call adds what it leaves alone.

\* what a call leaves in the history
Called(fn, id, err) ==
  [n |-> lastCall.n + 1, fn |-> fn, id |-> id, error |-> err]

\* lines 15-59, for an input that passes the four field tests
CreateDocument ==
  /\ documents' = Append(documents, [processing_status |-> "uploaded",
                                     summary |-> SqlNull,
                                     deleted_at |-> SqlNull])
  /\ lastCall' = Called("createDocument", Len(documents) + 1, NoError)
  /\ UNCHANGED softDeleted

\* lines 137-169
UpdateDocumentStatus(id, status) ==
  /\ IF InvalidId(id)
       THEN /\ lastCall' = Called("updateDocumentStatus", id,
                                  ValidationError("Valid document ID is required"))
            /\ UNCHANGED documents
       ELSE IF id \notin 1..Len(documents)
         THEN /\ lastCall' = Called("updateDocumentStatus", id,
                                    ValidationError("Document not found"))
              /\ UNCHANGED documents
         ELSE /\ documents' = [documents EXCEPT ![id].processing_status = status]
              /\ lastCall' = Called("updateDocumentStatus", id, NoError)
  /\ UNCHANGED softDeleted

\* lines 171-219 (keyPoints an array)
UpdateDocumentAnalysis(id, summary) ==
  /\ IF InvalidId(id)
       THEN /\ lastCall' = Called("updateDocumentAnalysis", id,
                                  ValidationError("Valid document ID is required"))
            /\ UNCHANGED documents
       ELSE IF IsBlank(summary)
         THEN /\ lastCall' = Called("updateDocumentAnalysis", id,
                                    ValidationError("Summary is required"))
              /\ UNCHANGED documents
         ELSE IF id \notin 1..Len(documents)
           THEN /\ lastCall' = Called("updateDocumentAnalysis", id,
                                      ValidationError("Document not found"))
                /\ UNCHANGED documents
           ELSE /\ documents' = [documents EXCEPT
                                   ![id].summary = summary,
                                   ![id].processing_status = "completed"]
                /\ lastCall' = Called("updateDocumentAnalysis", id, NoError)
  /\ UNCHANGED softDeleted

\* variant of SoftDeleteMatches: WHERE id = ?
MatchesById(rows, id) == id \in 1..Len(rows)

\* the rows of UPDATE ... WHERE id = ? AND deleted_at IS NULL (line 407)
SoftDeleteMatches(rows, id) ==
  id \in 1..Len(rows) /\ rows[id].deleted_at = SqlNull

\* lines 400-428
SoftDeleteDocument(id) ==
  /\ IF InvalidId(id)
       THEN /\ lastCall' = Called("softDeleteDocument", id,
                                  ValidationError("Valid document ID is required"))
            /\ UNCHANGED <<documents, softDeleted>>
       ELSE IF ~SoftDeleteMatches(documents, id)
         THEN /\ lastCall' = Called("softDeleteDocument", id,
                  ValidationError("Document not found or already deleted"))
              /\ UNCHANGED <<documents, softDeleted>>
         ELSE /\ documents' = [documents EXCEPT ![id].deleted_at = "datetime('now')"]
              /\ softDeleted' = softDeleted \cup {id}
              /\ lastCall' = Called("softDeleteDocument", id, NoError)

----------------------------------------------------------------------------
(* Any sequence of repository calls                                        *)

MaxDocs == 2
MaxCalls == 4

Summaries == { <<>>, <<" ">>, <<"o", "k">> }

\* the empty table, nothing else in use
RepoStart ==
  /\ documents = <<>>
  /\ lastCall = NoCall
  /\ softDeleted = {}
  /\ text = <<>>
  /\ ChunkUnused
  /\ SelectUnused
  /\ AnswerUnused
  /\ SnippetUnused
  /\ SplitUnused
  /\ CountUnused
  /\ PipeUnused

RepoInit == RepoStart /\ UploadUnused /\ StreamUnused /\ ConvUnused

\* the history is cut after MaxCalls calls
CallsLeft == lastCall.n < MaxCalls

RepoNext ==
  \/ /\ CallsLeft
     /\ Len(documents) < MaxDocs
     /\ CreateDocument
     /\ UNCHANGED outsideRepo
  \/ \E id \in 0..(MaxDocs + 1), status \in Statuses :
       /\ CallsLeft
       /\ UpdateDocumentStatus(id, status)
       /\ UNCHANGED outsideRepo
  \/ \E id \in 0..(MaxDocs + 1), summary \in Summaries :
       /\ CallsLeft
       /\ UpdateDocumentAnalysis(id, summary)
       /\ UNCHANGED outsideRepo
  \/ \E id \in 0..(MaxDocs + 1) :
       /\ CallsLeft
       /\ SoftDeleteDocument(id)
       /\ UNCHANGED outsideRepo

SpecRepo == RepoInit /\ [][RepoNext]_vars

----------------------------------------------------------------------------
(* Claims about soft deletion                                              *)

\* C17: once softDeleteDocument(id) has succeeded, in every later state
\* getDocumentById(id) returns undefined and listDocuments omits the
\* document, and a further softDeleteDocument(id) fails with a
\* ValidationError without changing any row.
C17_SoftDeleteIsFinal ==
  /\ [](\A id \in softDeleted :
          /\ getDocumentById(documents, id) = Undefined
          /\ id \notin listDocuments(documents))
  /\ [][\A id \in softDeleted :
          (lastCall'.n > lastCall.n /\ lastCall'.fn = "softDeleteDocument"
             /\ lastCall'.id = id)
          => /\ lastCall'.error.name = "ValidationError"
             /\ lastCall'.error.statusCode = 400
             /\ documents' = documents]_vars

\* a second softDeleteDocument of a deleted document, refused, after the
\* row was updated by another call
C17_Witness ==
  /\ lastCall.fn = "softDeleteDocument"
  /\ lastCall.id \in softDeleted
  /\ lastCall.error.name = "ValidationError"
  /\ documents[lastCall.id].processing_status = "failed"

----------------------------------------------------------------------------
(* POST /upload and its background analysis (routes/documents.ts 367-436)  *)

\* lines 372-425 for a file whose text is not blank: the row is inserted
\* and, unless MOCK_AI is set, the analysis is scheduled with setImmediate
Upload ==
  /\ Len(documents) < MaxDocs
  /\ CreateDocument
  /\ jobs' = Append(jobs, IF uploadMock THEN "none" ELSE "queued")
  /\ UNCHANGED uploadMock
  /\ UNCHANGED outsideUpload

\* lines 402-410: the callback starts and awaits generateSummaryAndKeyPoints
JobStart(id) ==
  /\ id \in 1..Len(jobs)
  /\ jobs[id] = "queued"
  /\ UpdateDocumentStatus(id, "processing")
  /\ jobs' = [jobs EXCEPT ![id] = "analysing"]
  /\ UNCHANGED uploadMock
  /\ UNCHANGED outsideUpload

\* lines 411-423: the analysis returned.  updateDocumentAnalysis refuses a
\* blank summary with a ValidationError before it touches the row, and the
\* catch block then records the failure.
JobAnalysisReturns(id, summary) ==
  /\ id \in 1..Len(jobs)
  /\ jobs[id] = "analysing"
  /\ IF IsBlank(summary)
       THEN UpdateDocumentStatus(id, "failed")
       ELSE UpdateDocumentAnalysis(id, summary)
  /\ jobs' = [jobs EXCEPT ![id] = "done"]
  /\ UNCHANGED uploadMock
  /\ UNCHANGED outsideUpload

\* variant of JobAnalysisThrows: the failure is not recorded
JobAnalysisThrowsUnrecorded(id) ==
  /\ id \in 1..Len(jobs)
  /\ jobs[id] = "analysing"
  /\ jobs' = [jobs EXCEPT ![id] = "done"]
  /\ UNCHANGED <<uploadMock, repoVars>>
  /\ UNCHANGED outsideUpload

\* lines 415-423: the analysis threw
JobAnalysisThrows(id) ==
  /\ id \in 1..Len(jobs)
  /\ jobs[id] = "analysing"
  /\ UpdateDocumentStatus(id, "failed")
  /\ jobs' = [jobs EXCEPT ![id] = "done"]
  /\ UNCHANGED uploadMock
  /\ UNCHANGED outsideUpload

\* DELETE /:id (lines 713-737)
DeleteDocument(id) ==
  /\ CallsLeft
  /\ SoftDeleteDocument(id)
  /\ UNCHANGED uploadVars
  /\ UNCHANGED outsideUpload

\* no upload yet
UploadStart ==
  /\ uploadMock \in BOOLEAN
  /\ jobs = <<>>
  /\ RepoStart

UploadInit == UploadStart /\ StreamUnused /\ ConvUnused

\* the analysis call of a document returns or throws
JobSettles(id) ==
  \/ \E summary \in Summaries : JobAnalysisReturns(id, summary)
  \/ JobAnalysisThrows(id)

UploadNext ==
  \/ Upload
  \/ \E id \in 1..MaxDocs : JobStart(id)
  \/ \E id \in 1..MaxDocs : JobSettles(id)
  \/ \E id \in 1..MaxDocs : DeleteDocument(id)

\* the setImmediate callback runs, and the analysis call returns or throws
UploadFairness ==
  \A id \in 1..MaxDocs : WF_vars(JobStart(id)) /\ WF_vars(JobSettles(id))

SpecUpload == UploadInit /\ [][UploadNext]_vars /\ UploadFairness

----------------------------------------------------------------------------
(* Claims about the processing status                                      *)

\* the status of document id, "absent" before its upload
StatusOf(id) ==
  IF id \in 1..Len(documents) THEN documents[id].processing_status
  ELSE "absent"

StatusMoves ==
  { <<"uploaded", "processing">>, <<"processing", "completed">>,
    <<"processing", "failed">> }

\* C18: for a document created by POST /upload with MOCK_AI off,
\* processing_status only moves along uploaded -> processing ->
\* (completed | failed); completed and failed are terminal; and provided
\* the analysis call eventually returns or throws, every such document
\* eventually reaches completed or failed.
C18_StatusPath ==
  /\ [][\A id \in 1..Len(documents) :
          documents'[id].processing_status # documents[id].processing_status
          => <<documents[id].processing_status,
               documents'[id].processing_status>> \in StatusMoves]_vars
  /\ \A id \in 1..MaxDocs :
       []((StatusOf(id) # "absent" /\ ~uploadMock)
          => <>(StatusOf(id) \in {"completed", "failed"}))

\* one document completed and another failed, one of them deleted meanwhile
C18_Witness ==
  /\ ~uploadMock
  /\ Len(documents) >= 2
  /\ \E id \in 1..Len(documents) : documents[id].processing_status = "completed"
  /\ \E id \in 1..Len(documents) : documents[id].processing_status = "failed"
  /\ softDeleted # {}

----------------------------------------------------------------------------
(* GET /:id/status/stream (routes/documents.ts 295-362)                    *)

MaxEvents == 3

Terminal == {"completed", "failed"}

\* lines 317-337, sendStatus, called while the response is in state now:
\* a document that is visible is written as an event, and a terminal
\* status ends the response.  The write is recorded with the state the
\* response was in.
SendStatus(id, now) ==
  LET currentDoc == getDocumentById(documents, id)
  IN  IF currentDoc = Undefined
        THEN /\ events' = events
             /\ conn' = now
        ELSE /\ events' = Append(events,
                            [status |-> currentDoc.processing_status,
                             afterEnd |-> now = "ended"])
             /\ conn' = IF currentDoc.processing_status \in Terminal
                          THEN "ended" ELSE now

\* lines 298-358: the handler.  An unknown document is refused with
\* NotFoundError; otherwise the head is written, sendStatus runs once,
\* then the interval, the close listener and the timeout are set up.
StreamOpen(id) ==
  /\ conn = "none"
  /\ IF getDocumentById(documents, id) = Undefined
       THEN /\ conn' = "refused"
            /\ UNCHANGED <<streamId, interval, timeout, events>>
       ELSE /\ streamId' = id
            /\ SendStatus(id, "open")
            /\ interval' = TRUE
            /\ timeout' = TRUE
  /\ UNCHANGED closed
  /\ UNCHANGED outsideStream

\* line 343: the interval fires and runs sendStatus
PollTick ==
  /\ interval
  /\ Len(events) < MaxEvents
  /\ SendStatus(streamId, conn)
  /\ UNCHANGED <<streamId, interval, timeout, closed>>
  /\ UNCHANGED outsideStream

\* lines 346-349: the close event of the request (the client went away, or
\* the runtime reports the finished exchange)
RequestClose ==
  /\ conn \in {"open", "ended"}
  /\ ~closed
  /\ closed' = TRUE
  /\ interval' = FALSE
  /\ conn' = "ended"
  /\ UNCHANGED <<streamId, timeout, events>>
  /\ UNCHANGED outsideStream

\* lines 352-355: the 5-minute timer
StreamTimeout ==
  /\ timeout
  /\ timeout' = FALSE
  /\ interval' = FALSE
  /\ conn' = "ended"
  /\ UNCHANGED <<streamId, closed, events>>
  /\ UNCHANGED outsideStream

StreamInit == UploadStart /\ StreamUnused /\ ConvUnused

StreamNext ==
  \/ UploadNext
  \/ \E id \in 1..MaxDocs : StreamOpen(id)
  \/ PollTick
  \/ RequestClose
  \/ StreamTimeout

SpecStream == StreamInit /\ [][StreamNext]_vars

----------------------------------------------------------------------------
(* Claims about the status stream                                          *)

\* C19: the stream closes the connection as soon as a poll observes
\* processing_status completed or failed, and after the connection has
\* been closed (by completion, client disconnect or the timeout) no later
\* poll tick writes another event to it.
C19_NoWriteAfterClose ==
  /\ (\E k \in 1..Len(events) : events[k].status \in Terminal)
       => conn = "ended"
  /\ \A k \in 1..Len(events) : ~events[k].afterEnd

----------------------------------------------------------------------------
(* POST /:id/ask and POST /chat (routes/documents.ts lines 439-625) over   *)
(* the tables conversations and conversation_messages.  A conversation id  *)
(* is the insertion number of its row: the generated ids qa_... and        *)
(* chat_... are fresh, and a client's conversationId names a row of an    *)
(* earlier request (an id it chose itself or was given in a response).     *)

MaxConvs == 2
MaxMessages == 4
MaxInFlight == 2

\* listConversations(documentId, 50) and getConversationHistory(id, 100),
\* getConversationHistory(id, 20): the LIMIT of each query
ConversationLimit == 50
AskHistoryLimit == 100
ChatHistoryLimit == 20

\* z.string().min(3) of askQuestionSchema, z.string().min(1) of
\* chatbotMessageSchema
MinQuestionLength == 3
MinMessageLength == 1

\* every insert and every UPDATE ... SET updated_at happens at a later time
Now == Len(conversations) + Len(messages) + 1

\* repositories/documents.ts lines 226-250: INSERT OR IGNORE
createConversation(rows, id, doc) ==
  IF id \in 1..Len(rows) THEN rows
  ELSE Append(rows, [document_id |-> doc, updated_at |-> Now])

\* repositories/documents.ts lines 252-303, for a content that is not blank
SaveConversationMessage(convs, msgs, id, role, content) ==
  [conversations |-> [convs EXCEPT ![id].updated_at =
                                     Len(convs) + Len(msgs) + 1],
   messages |-> Append(msgs, [conversation_id |-> id, role |-> role,
                              content |-> content])]

\* repositories/documents.ts lines 305-345: SELECT role, content ...
\* WHERE conversation_id = ? ORDER BY created_at ASC LIMIT ?
getConversationHistory(id, limit) ==
  LET own == SelectSeq(messages, LAMBDA m : m.conversation_id = id)
  IN  [k \in 1..Min(Len(own), limit) |->
         [role |-> own[k].role, content |-> own[k].content]]

RECURSIVE ByUpdatedDesc(_)
ByUpdatedDesc(ids) ==
  IF ids = {} THEN <<>>
  ELSE LET first == CHOOSE c \in ids : \A d \in ids :
                      conversations[d].updated_at <= conversations[c].updated_at
       IN  <<first>> \o ByUpdatedDesc(ids \ {first})

\* repositories/documents.ts lines 347-398: WHERE c.document_id = ?
\* ORDER BY c.updated_at DESC LIMIT ?
listConversations(doc, limit) ==
  LET all == ByUpdatedDesc({c \in 1..Len(conversations) :
                              conversations[c].document_id = doc})
  IN  SubSeq(all, 1, Min(Len(all), limit))

\* lines 473-480: the first i < messages.length - 1 whose message is a user
\* message equal to the question without case, 0 if there is none
\* (0-based i is k - 1)
CachedAt(msgs, asked) ==
  LET hits == {k \in 1..(Len(msgs) - 1) :
                 /\ msgs[k].role = "user"
                 /\ ToLower(msgs[k].content) = ToLower(asked)}
  IN  IF hits = {} THEN 0 ELSE CHOOSE k \in hits : \A j \in hits : k <= j

\* lines 471-484: the conversations in order, stopping at the first with a
\* match; cachedAnswer is messages[i + 1].content whatever its role
RECURSIVE CacheScan(_, _)
CacheScan(convs, asked) ==
  IF convs = <<>> THEN [found |-> FALSE, answer |-> <<>>]
  ELSE LET msgs == getConversationHistory(Head(convs), AskHistoryLimit)
           k == CachedAt(msgs, asked)
       IN  IF k > 0 /\ msgs[k + 1].content /= <<>>
             THEN [found |-> TRUE, answer |-> msgs[k + 1].content]
             ELSE CacheScan(Tail(convs), asked)

CacheLookup(doc, asked) ==
  CacheScan(listConversations(doc, ConversationLimit), asked)

\* the messages still to be saved by the requests in flight
Reserved == Cardinality(chats) + 2 * Cardinality(asks)

\* lines 444-497: getDocumentById finds the document, the cache is looked
\* up and either answers or the request goes on to await answerQuestion
Ask(doc, asked) ==
  /\ getDocumentById(documents, doc) /= Undefined
  /\ Len(asked) >= MinQuestionLength
  /\ LET hit == CacheLookup(doc, asked)
     IN  IF hit.found
           THEN /\ lastAsk' = [cached |-> TRUE, answer |-> hit.answer,
                               document |-> doc, question |-> asked]
                /\ UNCHANGED asks
           ELSE /\ [document |-> doc, question |-> asked] \notin asks
                /\ asks' = asks \cup {[document |-> doc,
                                       question |-> asked]}
                /\ UNCHANGED lastAsk
  /\ UNCHANGED <<conversations, messages, chats, replies>>
  /\ UNCHANGED outsideConv

\* lines 500-527: answerQuestion returned; a new conversation holds the
\* question and the answer
AskAnswered(a, given) ==
  /\ a \in asks
  /\ LET id == Len(conversations) + 1
         convs == createConversation(conversations, id, a.document)
         q == SaveConversationMessage(convs, messages, id, "user",
                                      a.question)
         r == SaveConversationMessage(q.conversations, q.messages, id,
                                      "assistant", given)
     IN  /\ conversations' = r.conversations
         /\ messages' = r.messages
  /\ asks' = asks \ {a}
  /\ lastAsk' = [cached |-> FALSE, answer |-> given,
                 document |-> a.document, question |-> a.question]
  /\ replies' = replies \cup {[document |-> a.document,
                               question |-> a.question, answer |-> given]}
  /\ UNCHANGED chats
  /\ UNCHANGED outsideConv

\* lines 528-535: answerQuestion threw; nothing was stored
AskFails(a) ==
  /\ a \in asks
  /\ asks' = asks \ {a}
  /\ UNCHANGED <<conversations, messages, chats, lastAsk, replies>>
  /\ UNCHANGED outsideConv

\* conversationHistory.slice(-10) of handleChatbotMessage (services/ai.ts
\* line 551): the messages put before the new one in the request
ContextLimit == 10

ChatContext(history) == Slice(history, 0 - ContextLimit, Len(history))

\* lines 545-584: the conversation is created unless it exists, the history
\* is read, the user message is saved, handleChatbotMessage is awaited and
\* builds the request of the model (services/ai.ts lines 547-565).
\* doc = 0 is a request without documentId (its conversation gets
\* document_id NULL, written 0), conv = 0 one without conversationId
ChatBegin(conv, doc, message) ==
  /\ doc = 0 \/ getDocumentById(documents, doc) /= Undefined
  /\ Len(message) >= MinMessageLength
  /\ ~IsBlank(message)
  /\ LET id == IF conv = 0 THEN Len(conversations) + 1 ELSE conv
         convs == createConversation(conversations, id, doc)
         saved == SaveConversationMessage(convs, messages, id, "user",
                                          message)
         history == getConversationHistory(id, ChatHistoryLimit)
         request == [conversation_id |-> id, message |-> message,
                     history |-> history,
                     context |-> ChatContext(history)]
     IN  /\ request \notin chats
         /\ conversations' = saved.conversations
         /\ messages' = saved.messages
         /\ chats' = chats \cup {request}
  /\ UNCHANGED <<asks, lastAsk, replies>>
  /\ UNCHANGED outsideConv

\* lines 586-612: handleChatbotMessage returned; the response is saved
ChatSucceeds(c, response) ==
  /\ c \in chats
  /\ LET saved == SaveConversationMessage(conversations, messages,
                                          c.conversation_id, "assistant",
                                          response)
     IN  /\ conversations' = saved.conversations
         /\ messages' = saved.messages
  /\ chats' = chats \ {c}
  /\ replies' = replies \cup
       {[document |-> conversations[c.conversation_id].document_id,
         question |-> c.message, answer |-> response]}
  /\ UNCHANGED <<asks, lastAsk>>
  /\ UNCHANGED outsideConv

\* lines 613-620: handleChatbotMessage threw; the user message stays
\* without a reply
ChatFails(c) ==
  /\ c \in chats
  /\ chats' = chats \ {c}
  /\ UNCHANGED <<conversations, messages, asks, lastAsk, replies>>
  /\ UNCHANGED outsideConv

AskQuestions == {<<"P", "P", "E">>, <<"p", "p", "e">>}
ChatMessages == AskQuestions \cup {<<"w", "h", "y">>}
AiTexts == {<<"A">>, <<"B">>}

\* MaxDocs documents with text have been uploaded
ConvInit ==
  /\ documents = [id \in 1..MaxDocs |->
                    [processing_status |-> "uploaded", summary |-> SqlNull,
                     deleted_at |-> SqlNull]]
  /\ lastCall = NoCall
  /\ softDeleted = {}
  /\ text = <<>>
  /\ ChunkUnused
  /\ SelectUnused
  /\ AnswerUnused
  /\ SnippetUnused
  /\ SplitUnused
  /\ CountUnused
  /\ PipeUnused
  /\ UploadUnused
  /\ StreamUnused
  /\ ConvUnused

\* the tables and the requests in flight are kept within the bounds: a new
\* request must leave room for the messages and the conversation that the
\* requests in flight may still store
RequestRoom ==
  /\ Cardinality(chats) + Cardinality(asks) < MaxInFlight
  /\ Len(messages) + Reserved + 2 <= MaxMessages

ConversationRoom == Len(conversations) + Cardinality(asks) < MaxConvs

ConvNext ==
  \/ \E doc \in 1..MaxDocs, asked \in AskQuestions :
       /\ CacheLookup(doc, asked).found
            \/ (RequestRoom /\ ConversationRoom)
       /\ Ask(doc, asked)
  \/ \E a \in asks, given \in AiTexts : AskAnswered(a, given)
  \/ \E a \in asks : AskFails(a)
  \/ \E conv \in 0..Len(conversations), doc \in 0..MaxDocs,
        message \in ChatMessages :
       /\ RequestRoom
       /\ conv = 0 => ConversationRoom
       /\ ChatBegin(conv, doc, message)
  \/ \E c \in chats, response \in AiTexts : ChatSucceeds(c, response)
  \/ \E c \in chats : ChatFails(c)

SpecAsk == ConvInit /\ [][ConvNext]_vars

----------------------------------------------------------------------------
(* Claims about the answer cache                                           *)

\* C20: when POST /:id/ask answers from the conversation cache
\* (cached = true), the returned answer is the content of an assistant
\* message that was stored as the reply to an earlier user message equal
\* without case to the question, in a conversation of the same document,
\* whatever /ask and /chat requests came before, failed /chat calls
\* included.
C20_CachedIsStoredReply ==
  lastAsk.cached =>
    \E r \in replies :
      /\ r.document = lastAsk.document
      /\ ToLower(r.question) = ToLower(lastAsk.question)
      /\ r.answer = lastAsk.answer

----------------------------------------------------------------------------
(* POST /chat requests on one conversation that already holds messages     *)

\* the log holds at most MaxChatLog messages, at most MaxStored and at least
\* MaxChatLog - MaxNew of them stored before the first request
MaxStored == 22
MaxChatLog == 24
MaxNew == 6

DigitChars == <<"0", "1", "2", "3", "4", "5", "6", "7", "8", "9">>

\* the decimal text of n, which tells the messages of a conversation apart
RECURSIVE Decimal(_)
Decimal(n) ==
  IF n < 10 THEN <<DigitChars[n + 1]>>
  ELSE Decimal(n \div 10) \o <<DigitChars[(n % 10) + 1]>>

\* the rows left by earlier /chat requests on conversation 1: user and
\* assistant messages in turn (an odd count: the last call failed)
StoredChat(n) ==
  [k \in 1..n |-> [conversation_id |-> 1,
                   role |-> IF k % 2 = 1 THEN "user" ELSE "assistant",
                   content |-> Decimal(k)]]

ChatInit ==
  /\ documents = [id \in 1..MaxDocs |->
                    [processing_status |-> "uploaded", summary |-> SqlNull,
                     deleted_at |-> SqlNull]]
  /\ lastCall = NoCall
  /\ softDeleted = {}
  /\ \E n \in (MaxChatLog - MaxNew)..MaxStored :
       /\ messages = StoredChat(n)
       /\ conversations = <<[document_id |-> 1, updated_at |-> n + 1]>>
  /\ chats = {}
  /\ asks = {}
  /\ lastAsk = NoAsk
  /\ replies = {}
  /\ text = <<>>
  /\ ChunkUnused
  /\ SelectUnused
  /\ AnswerUnused
  /\ SnippetUnused
  /\ SplitUnused
  /\ CountUnused
  /\ PipeUnused
  /\ UploadUnused
  /\ StreamUnused

\* the next message of the log, from the client or from the model
NextText == Decimal(Len(messages) + 1)

ChatNext ==
  \/ /\ Cardinality(chats) < MaxInFlight
     /\ Len(messages) + Cardinality(chats) + 2 <= MaxChatLog
     /\ ChatBegin(1, 1, NextText)
  \/ \E c \in chats : ChatSucceeds(c, NextText)
  \/ \E c \in chats : ChatFails(c)

SpecChat == ChatInit /\ [][ChatNext]_vars

----------------------------------------------------------------------------
(* Claims about the chat history                                           *)

\* the messages of a conversation, in the order they were stored
StoredOf(id) ==
  LET own == SelectSeq(messages, LAMBDA m : m.conversation_id = id)
  IN  [k \in 1..Len(own) |-> [role |-> own[k].role,
                              content |-> own[k].content]]

\* the messages stored before the user message of request c
PriorOf(c) ==
  LET own == StoredOf(c.conversation_id)
      at == CHOOSE k \in 1..Len(own) :
              own[k] = [role |-> "user", content |-> c.message]
  IN  SubSeq(own, 1, at - 1)

\* C30: after any sequence of POST /chat requests on one conversation, the
\* history passed to the model for the next message is made of the most
\* recent prior messages of the conversation (at most the last 10), in
\* chronological order and without the message being sent, also once the
\* conversation holds more than 20 stored messages.
C30_HistoryIsMostRecent ==
  \A c \in chats :
    LET prior == PriorOf(c)
    IN  c.context =
          SubSeq(prior, Len(prior) - Min(ContextLimit, Len(prior)) + 1,
                 Len(prior))

----------------------------------------------------------------------------
(* splitIntoSections as a call of its own                                  *)

\* The call: lines is text.split(/\r?\n/) (line 66), heads the numbers of
\* the lines that took the branch of lines 73-80 (a new title), sections the
\* array returned.
SplitCall(t) ==
  LET ls == SplitLines(t, 1, <<>>)
  IN  [lines |-> ls,
       heads |-> {i \in 1..Len(ls) : headerRegexTest(Trim(ls[i]))},
       sections |-> splitIntoSections(t)]

Split ==
  /\ tpc = "idle"
  /\ split' = SplitCall(text)
  /\ tpc' = "done"
  /\ UNCHANGED text
  /\ UNCHANGED outsideSplit

MaxSplitLines == 4

\* Lines a document is made of: a numbered, a markdown and a vocabulary
\* heading, a prose line beginning with a lower-case word, a one-letter
\* line, an empty line and a line of one space.
SplitLib ==
  { <<"1", ".">>,
    <<"#", " ", "T">>,
    <<"R", "i", "s", "k">>,
    <<"t", "h", "e", " ", "c">>,
    <<"a">>,
    <<>>,
    <<" ">> }

SplitInit ==
  /\ text \in {Join(ls, <<"\n">>) :
                 ls \in UNION {[1..n -> SplitLib] : n \in 0..MaxSplitLines}}
  /\ SplitUnused
  /\ CountUnused
  /\ ChunkUnused
  /\ SelectUnused
  /\ AnswerUnused
  /\ SnippetUnused
  /\ PipeUnused
  /\ ServerUnused

SplitNext == Split

SpecSplit == SplitInit /\ [][SplitNext]_vars

----------------------------------------------------------------------------
(* Claims about splitIntoSections                                          *)

\* the four kinds of heading line: numbered, beginning with capitals (and
\* spaces) of at least 3 characters, markdown, beginning with a word of the
\* vocabulary (in any case)
NamedHeading(s) ==
  \/ LET d == LeadRun(s, Digits, 1)
     IN  d >= 1 /\ Len(s) > d /\ s[d + 1] = "."
  \/ /\ Len(s) >= 3
     /\ IsUpper(s[1])
     /\ \A i \in 2..3 : IsUpper(s[i]) \/ s[i] \in Whitespace
  \/ HashPrefixLen(s) > 0
  \/ /\ StartsWithCI(s, SectionWord)
     /\ LET ws == LeadRun(s, Whitespace, Len(SectionWord) + 1)
        IN  /\ ws >= 1
            /\ LeadRun(s, Digits, Len(SectionWord) + ws + 1) >= 1
  \/ \E k \in 1..Len(HeadingWords) : StartsWithCI(s, HeadingWords[k])

\* C24: splitIntoSections starts a new section on a line only if the line
\* is numbered, begins with ALL-CAPS words of at least 3 characters, has a
\* markdown # prefix or begins with a word of the heading vocabulary; any
\* other line, such as a prose line beginning with a lower-case word, goes
\* to the body of the current section and never becomes a title.
C24_OnlyHeadingsStartSections ==
  tpc = "done" =>
    \A i \in split.heads : NamedHeading(Trim(split.lines[i]))

\* the lines after line h up to the next heading line (or the end)
BlockAfter(h) ==
  LET later == {i \in split.heads : i > h}
      last == IF later = {} THEN Len(split.lines)
              ELSE (CHOOSE i \in later : \A j \in later : i <= j) - 1
  IN  SubSeq(split.lines, h + 1, last)

\* the sections of the blocks from line h on, h being 0 (the start of the
\* document) or a heading line
RECURSIVE SectionsFrom(_)
SectionsFrom(h) ==
  LET block == BlockAfter(h)
      here == IF Len(block) > 0 /\ ~IsBlank(Join(block, <<"\n">>))
                THEN <<[title |-> IF h = 0 THEN Introduction
                                  ELSE TitleOf(split.lines[h]),
                        body |-> Join(block, <<"\n">>)]>>
                ELSE <<>>
      next == h + Len(block) + 1
  IN  IF next > Len(split.lines) THEN here
      ELSE here \o SectionsFrom(next)

\* C25: every section returned by splitIntoSections has a body that is
\* non-empty after trimming; the sections are in source-document order; the
\* lines before the first heading form a section titled "Introduction"; a
\* heading followed directly by another heading or only by blank lines
\* produces no section.
C25_SectionsOfBlocks ==
  tpc = "done" =>
    /\ \A k \in 1..Len(split.sections) : ~IsBlank(split.sections[k].body)
    /\ split.sections = SectionsFrom(0)

\* an introduction, a heading followed directly by a heading, and a section
C25_Witness ==
  /\ tpc = "done"
  /\ Len(split.sections) = 2
  /\ split.sections[1].title = Introduction
  /\ \E i \in split.heads : i + 1 \in split.heads
  /\ Cardinality(split.heads) = 2

----------------------------------------------------------------------------
(* countTokensForText as a call of its own (lines 35-61).  The operator    *)
(* countTokensForText above is the heuristic both simulation mode and the  *)
(* fallback return.                                                        *)

\* resp.input_tokens is a count or undefined, written -1
NoInputTokens == -1

\* lines 36-39: simulation mode, no call is made
CountMock ==
  /\ kpc = "idle"
  /\ countMock
  /\ counted' = countTokensForText(text)
  /\ kpc' = "returned"
  /\ UNCHANGED <<text, countMock, countRequests, countFailures>>
  /\ UNCHANGED outsideCount

\* lines 41-51: anthropic.messages.countTokens is called and awaited
CountRequest ==
  /\ kpc = "idle"
  /\ ~countMock
  /\ countRequests' = countRequests + 1
  /\ kpc' = "awaiting"
  /\ UNCHANGED <<text, countMock, countFailures, counted>>
  /\ UNCHANGED outsideCount

\* line 52: return resp.input_tokens ?? 0
CountReturns(input_tokens) ==
  /\ kpc = "awaiting"
  /\ counted' = IF input_tokens = NoInputTokens THEN 0 ELSE input_tokens
  /\ kpc' = "returned"
  /\ UNCHANGED <<text, countMock, countRequests, countFailures>>
  /\ UNCHANGED outsideCount

\* variant of CountFails: the failure of the call is passed on
CountFailsThrows ==
  /\ kpc = "awaiting"
  /\ countFailures' = countFailures + 1
  /\ kpc' = "thrown"
  /\ UNCHANGED <<text, countMock, countRequests, counted>>
  /\ UNCHANGED outsideCount

\* lines 53-60: the call threw; the heuristic is returned
CountFails ==
  /\ kpc = "awaiting"
  /\ countFailures' = countFailures + 1
  /\ counted' = countTokensForText(text)
  /\ kpc' = "returned"
  /\ UNCHANGED <<text, countMock, countRequests>>
  /\ UNCHANGED outsideCount

MaxCountLen == 30
MaxApiTokens == 9

CountInit ==
  /\ text \in {Rep("a", n) : n \in 0..MaxCountLen}
  /\ countMock \in BOOLEAN
  /\ countRequests = 0
  /\ countFailures = 0
  /\ counted = 0
  /\ kpc = "idle"
  /\ ChunkUnused
  /\ SelectUnused
  /\ AnswerUnused
  /\ SnippetUnused
  /\ PipeUnused
  /\ ServerUnused
  /\ SplitUnused

CountNext ==
  \/ CountMock
  \/ CountRequest
  \/ \E n \in {NoInputTokens} \cup 0..MaxApiTokens : CountReturns(n)
  \/ CountFails

SpecCount == CountInit /\ [][CountNext]_vars

----------------------------------------------------------------------------
(* Claims about countTokensForText                                         *)

\* the least n with 4 * n >= Len(s)
CeilOfQuarter(s) ==
  CHOOSE n \in 0..Len(s) : 4 * n >= Len(s) /\ 4 * (n - 1) < Len(s)

\* C28: countTokensForText never raises to its caller; in simulation mode
\* it returns ceil(length(text)/4) without an external call; when the
\* external count call fails it returns the same heuristic; its result is
\* always an integer >= 0.
C28_CountNeverRaises ==
  /\ kpc # "thrown"
  /\ kpc = "returned" =>
       /\ counted \in Nat
       /\ countMock => counted = CeilOfQuarter(text) /\ countRequests = 0
       /\ countFailures > 0 => counted = CeilOfQuarter(text)

\* the external call was made, failed, and the heuristic of a text whose
\* length is no multiple of 4 came back
C28_Witness ==
  /\ kpc = "returned"
  /\ ~countMock
  /\ countRequests = 1
  /\ countFailures = 1
  /\ Len(text) % 4 = 1
  /\ counted = CeilOfQuarter(text)

=============================================================================
